---- MODULE Spec2Model ----
(***************************************************************************)
(* Reviewer assignment service: ReviewerService (internal/service) over    *)
(* the PostgreSQL Repository (internal/repository).  Every request runs in *)
(* its own goroutine; the service holds no locks, so the atomic steps are  *)
(* the individual repository statements / transactions.                    *)
(***************************************************************************)
EXTENDS Bags, FiniteSets, Integers, Sequences, TLC

(* ------------------------------ bounds -------------------------------- *)
\* total number of service calls started in one behaviour
MaxCalls == 4
\* largest value of the wall clock
MaxClock == 2
\* largest maxCount passed to selectReviewers in the runs of the selector
MaxCount == 3
\* longest reviewer list handed to ValidateReviewersCount on its own
MaxReviewers == 3

(* ------------------------- program constants -------------------------- *)
\* number of reviewers CreatePR asks selectReviewers for
ReviewersPerPR == 2
\* max length of team_name / pull_request_name
MaxNameLen == 255

StatusOpen == "open"
StatusMerged == "merged"

(* ------------------------------ inputs -------------------------------- *)
Procs == {"w1", "w2"}
Nil == "nil"                       \* uuid.Nil
UserIds == {"A", "B", "C", "D"}
PRIds == {"p1", "p2"}
Stranger == "E"                    \* a user id that no team of TeamInputs lists
NoTeam == "-"                      \* no row / no team
NoStatus == "-"                    \* no pull_requests row

\* arguments of POST /users/setIsActive, /pullRequest/create, /merge, /reassign;
\* the active flag is toggled for one member that stays in its team (B) and
\* for the member that a second team can take over (D)
SetUserActiveInputs == ({"B", "D"} \X BOOLEAN) \cup {<<Nil, TRUE>>}
CreatePRInputs ==
  {<<"p1", "Feature", a>> : a \in UserIds \cup {Stranger}}
    \cup {<<Nil, "Feature", "A">>, <<"p1", "", "A">>, <<"p1", "Feature", Nil>>}
MergePRInputs == {"p1", Nil}
ReassignInputs == ({"p1"} \X UserIds) \cup {<<Nil, "B">>, <<"p1", Nil>>}

\* member lists handed to selectReviewers: any users, each active or not,
\* no id twice (user_id is the key of users)
MemberLists ==
  {ms \in SUBSET [id : UserIds, active : BOOLEAN] :
     \A x, y \in ms : x.id = y.id => x = y}

\* requests of the runs that follow Repository.CreatePR statement by statement:
\* two pull-request ids, authors from the four-member team
CreatePRInputsTx == PRIds \X {"Feature"} \X {"A", "B"}

Member(id) == [id |-> id, username |-> id, active |-> TRUE]

\* request bodies of POST /team/add
TeamInputs ==
  { [name |-> "backend",  members |-> <<Member("A"), Member("B"), Member("C"), Member("D")>>],
    [name |-> "frontend", members |-> <<[Member("D") EXCEPT !.username = "Dee"]>>],
    [name |-> "ops",      members |-> <<>>] }

TeamNames == {t.name : t \in TeamInputs}

(* ------------------------------- state -------------------------------- *)
VARIABLES
  teams,          \* table teams: set of team_name
  users,          \* table users: user_id -> [team, username, active]
  pull_requests,  \* table pull_requests: id -> [status, author, mergedAt]
  pr_reviewers,   \* table pr_reviewers: id -> bag of user_id rows
  clock,          \* time.Now()
  calls,          \* number of calls started
  pc,             \* position of each request goroutine
  call,           \* arguments of the running call
  pr,             \* local: result of the first GetPRByID
  teamName,       \* local: author.TeamName / oldUser.TeamName
  members,        \* local: result of GetTeamMembers
  sel,            \* local: reviewers / newReviewer
  now,            \* local: now := time.Now()
  err,            \* returned error (chain of wrapped messages), <<>> = nil
  ret,            \* returned value
  repoCalls,      \* s.repo calls the call has invoked so far: reads, writes
  stats           \* local: the aggregates GetStatistics has read so far

dbvars == <<teams, users, pull_requests, pr_reviewers>>
locals == <<pr, teamName, members, sel, now, stats>>
vars == <<teams, users, pull_requests, pr_reviewers, clock, calls,
          pc, call, pr, teamName, members, sel, now, err, ret, stats, repoCalls>>

(* ------------------------------ helpers ------------------------------- *)
Range(s) == {s[i] : i \in 1..Len(s)}

\* fmt.Errorf("<prefix>: %w", e)
Wrap(prefix, e) == <<prefix>> \o e
\* errors.New(token)
ErrNew(token) == <<token>>
\* innermost error of the chain
Cause(e) == e[Len(e)]

NoPR == [status |-> NoStatus, author |-> Nil, mergedAt |-> 0, revs |-> EmptyBag]
NoUser == [team |-> NoTeam, username |-> "", active |-> FALSE]
NoCall == [op |-> "-", pr |-> Nil, user |-> Nil, flag |-> FALSE, name |-> "", team |-> NoTeam,
           members |-> <<>>, count |-> 0, seed |-> 0, token |-> ""]
\* no aggregate read yet (-1, and a user_stats list that holds one null row)
NoPRStats == [open |-> -1, merged |-> -1, total |-> -1]
NoUserStats == {[id |-> Nil, username |-> "", team |-> NoTeam,
                 total |-> -1, open |-> -1, merged |-> -1]}
NoStats == [prStats |-> NoPRStats, userStats |-> NoUserStats,
            totalUsers |-> -1, totalTeams |-> -1, activeUsers |-> -1]
NoRet == [pr |-> NoPR, user |-> Nil, active |-> FALSE, stats |-> NoStats,
          reviews |-> EmptyBag]
\* no repository call yet; the first call is a query; the first call is a write
NoCalls == [reads |-> 0, writes |-> 0]
OneRead == [reads |-> 1, writes |-> 0]
OneWrite == [reads |-> 0, writes |-> 1]

UserExists(u) == u \in DOMAIN users /\ users[u].team # NoTeam
PRRowExists(p) == p \in PRIds /\ pull_requests[p].status # NoStatus

(* ------------------------------ Validator ----------------------------- *)
\* strings.TrimSpace(s) == ""
\* strings.TrimSpace(s) == "": s holds nothing but white space
RECURSIVE Blank(_)
Blank(s) ==
  IF Len(s) <= 1 THEN s \in {"", " "}
  ELSE LET h == Len(s) \div 2
       IN  Blank(SubSeq(s, 1, h)) /\ Blank(SubSeq(s, h + 1, Len(s)))

\* a module text holds ASCII only: the letter Z stands for a letter that
\* UTF-8 encodes in two bytes (Cyrillic and the like)
TwoByteLetter == "Z"

\* len(s) of Go: the number of bytes of s, not of its characters
RECURSIVE ByteLen(_)
ByteLen(s) ==
  IF Len(s) <= 1 THEN (IF s = TwoByteLetter THEN 2 ELSE Len(s))
  ELSE LET h == Len(s) \div 2
       IN  ByteLen(SubSeq(s, 1, h)) + ByteLen(SubSeq(s, h + 1, Len(s)))

ValidateTeamMember(m) ==
  IF m.id = Nil THEN ErrNew("user_id cannot be nil UUID")
  ELSE IF Blank(m.username) THEN ErrNew("username cannot be empty")
  ELSE IF ByteLen(m.username) > MaxNameLen THEN ErrNew("username too long (max 255 characters)")
  ELSE <<>>

RECURSIVE ValidateMembers(_, _)
ValidateMembers(ms, seen) ==
  IF ms = <<>> THEN <<>>
  ELSE LET m == Head(ms) IN
       IF ValidateTeamMember(m) # <<>> THEN ValidateTeamMember(m)
       ELSE IF m.id \in seen THEN ErrNew("duplicate user_id in team")
       ELSE ValidateMembers(Tail(ms), seen \cup {m.id})

ValidateTeam(team) ==
  IF Blank(team.name) THEN ErrNew("team_name cannot be empty")
  ELSE IF ByteLen(team.name) > MaxNameLen THEN ErrNew("team_name too long (max 255 characters)")
  ELSE IF Len(team.members) = 0 THEN ErrNew("team must have at least one member")
  ELSE ValidateMembers(team.members, {})

ValidatePRStatus(status) ==
  IF status # StatusOpen /\ status # StatusMerged THEN ErrNew("invalid PR status") ELSE <<>>

ValidatePullRequest(p, name, author, status) ==
  IF p = Nil THEN ErrNew("pull_request_id cannot be nil UUID")
  ELSE IF Blank(name) THEN ErrNew("pull_request_name cannot be empty")
  ELSE IF ByteLen(name) > MaxNameLen THEN ErrNew("pull_request_name too long (max 255 characters)")
  ELSE IF author = Nil THEN ErrNew("author_id cannot be nil UUID")
  ELSE ValidatePRStatus(status)

\* variant: only the upper limit is checked
\* variant: without the upper limit
ValidateReviewersCount_NoMaximum(reviewers) ==
  IF Len(reviewers) < 2 THEN ErrNew("not enough reviewers: minimum 2 required")
  ELSE <<>>

ValidateReviewersCount_NoMinimum(reviewers) ==
  IF Len(reviewers) > 2 THEN ErrNew("cannot assign more than 2 reviewers")
  ELSE <<>>

ValidateReviewersCount(reviewers) ==
  IF Len(reviewers) < 2 THEN ErrNew("not enough reviewers: minimum 2 required")
  ELSE IF Len(reviewers) > 2 THEN ErrNew("cannot assign more than 2 reviewers")
  ELSE <<>>

(* ------------------------- repository reads --------------------------- *)
\* SELECT ... FROM users JOIN teams WHERE team_name = $1
GetTeamMembers(t) ==
  {[id |-> u, active |-> users[u].active] : u \in {v \in DOMAIN users : users[v].team = t}}

(* ----------------------------- call entry ----------------------------- *)
\* a request is served by the first free goroutine
Free(q) == pc[q] \in {"idle", "done"}
CanCall(q) ==
  /\ Free(q)
  /\ calls < MaxCalls
  /\ q = "w2" => ~Free("w1")

\* a finished call: position, error, result; locals are dead
Finish(q, e, r) ==
  /\ pc' = [pc EXCEPT ![q] = "done"]
  /\ err' = [err EXCEPT ![q] = e]
  /\ ret' = [ret EXCEPT ![q] = r]
  /\ pr' = [pr EXCEPT ![q] = NoPR]
  /\ teamName' = [teamName EXCEPT ![q] = NoTeam]
  /\ members' = [members EXCEPT ![q] = {}]
  /\ sel' = [sel EXCEPT ![q] = <<>>]
  /\ now' = [now EXCEPT ![q] = 0]
  /\ stats' = [stats EXCEPT ![q] = NoStats]

Begin(q, c) ==
  /\ CanCall(q)
  /\ calls' = calls + 1
  /\ call' = [call EXCEPT ![q] = c]

Goto(q, l) ==
  /\ pc' = [pc EXCEPT ![q] = l]
  /\ err' = [err EXCEPT ![q] = <<>>]
  /\ ret' = [ret EXCEPT ![q] = NoRet]

(* ------------------------------ CreateTeam ---------------------------- *)
\* variant: repo.TeamExists is called first, ValidateTeam after it
CreateTeam_ExistsFirst(q, team) ==
  /\ Begin(q, [NoCall EXCEPT !.op = "CreateTeam", !.team = team.name, !.members = team.members])
  /\ repoCalls' = [repoCalls EXCEPT ![q] = OneRead]
  /\ UNCHANGED <<dbvars, clock>>
  /\ IF team.name \in teams
       THEN Finish(q, ErrNew("TEAM_EXISTS"), NoRet)
     ELSE IF ValidateTeam(team) # <<>>
       THEN Finish(q, Wrap("validation error", ValidateTeam(team)), NoRet)
     ELSE /\ Goto(q, "ct_insert")
          /\ UNCHANGED locals

\* ReviewerService.CreateTeam up to and including repo.TeamExists
CreateTeam(q, team) ==
  /\ Begin(q, [NoCall EXCEPT !.op = "CreateTeam", !.team = team.name, !.members = team.members])
  /\ repoCalls' = [repoCalls EXCEPT ![q] = IF ValidateTeam(team) # <<>> THEN NoCalls ELSE OneRead]
  /\ UNCHANGED <<dbvars, clock>>
  /\ IF ValidateTeam(team) # <<>>
       THEN Finish(q, Wrap("validation error", ValidateTeam(team)), NoRet)
     ELSE IF team.name \in teams
       THEN Finish(q, ErrNew("TEAM_EXISTS"), NoRet)
     ELSE /\ Goto(q, "ct_insert")
          /\ UNCHANGED locals

\* users rows after the INSERT ... ON CONFLICT (user_id) DO UPDATE loop
RECURSIVE UpsertMembers(_, _, _)
UpsertMembers(us, ms, t) ==
  IF ms = <<>> THEN us
  ELSE UpsertMembers([us EXCEPT ![Head(ms).id] =
                        [team |-> t, username |-> Head(ms).username, active |-> Head(ms).active]],
                     Tail(ms), t)

\* variant: the member rows are upserted although the team insert failed
CreateTeamInsert_UpsertAnyway(q) ==
  /\ pc[q] = "ct_insert"
  /\ repoCalls' = [repoCalls EXCEPT ![q].writes = @ + 1]
  /\ LET team == [name |-> call[q].team, members |-> call[q].members] IN
     /\ teams' = teams \cup {team.name}
     /\ users' = UpsertMembers(users, team.members, team.name)
     /\ UNCHANGED <<pull_requests, pr_reviewers>>
     /\ Finish(q, IF team.name \in teams THEN ErrNew("TEAM_EXISTS") ELSE <<>>, NoRet)
  /\ UNCHANGED <<clock, calls, call>>

\* Repository.CreateTeam: one transaction
CreateTeamInsert(q) ==
  /\ pc[q] = "ct_insert"
  /\ repoCalls' = [repoCalls EXCEPT ![q].writes = @ + 1]
  /\ LET team == [name |-> call[q].team, members |-> call[q].members] IN
     IF team.name \in teams
       THEN /\ Finish(q, ErrNew("TEAM_EXISTS"), NoRet)
            /\ UNCHANGED dbvars
       ELSE /\ teams' = teams \cup {team.name}
            /\ users' = UpsertMembers(users, team.members, team.name)
            /\ UNCHANGED <<pull_requests, pr_reviewers>>
            /\ Finish(q, <<>>, NoRet)
  /\ UNCHANGED <<clock, calls, call>>

(* ---------------------------- SetUserActive --------------------------- *)
\* variant: deactivating a user also deletes the user's reviewer rows
SetUserActive_Unassign(q, u, isActive) ==
  /\ Begin(q, [NoCall EXCEPT !.op = "SetUserActive", !.user = u, !.flag = isActive])
  /\ repoCalls' = [repoCalls EXCEPT ![q] = IF u = Nil THEN NoCalls ELSE OneWrite]
  /\ UNCHANGED <<teams, pull_requests, clock>>
  /\ IF u = Nil
       THEN /\ Finish(q, ErrNew("user_id cannot be nil UUID"), NoRet)
            /\ UNCHANGED <<users, pr_reviewers>>
     ELSE IF ~UserExists(u)
       THEN /\ Finish(q, Wrap("failed to set user active", ErrNew("USER_NOT_FOUND")), NoRet)
            /\ UNCHANGED <<users, pr_reviewers>>
     ELSE /\ users' = [users EXCEPT ![u].active = isActive]
          /\ pr_reviewers' = IF isActive THEN pr_reviewers
                             ELSE [p \in DOMAIN pr_reviewers |->
                                     pr_reviewers[p] (-) [x \in {u} |-> CopiesIn(u, pr_reviewers[p])]]
          /\ Goto(q, "sa_get")
          /\ UNCHANGED locals

\* ReviewerService.SetUserActive up to and including repo.SetUserActive
SetUserActive(q, u, isActive) ==
  /\ Begin(q, [NoCall EXCEPT !.op = "SetUserActive", !.user = u, !.flag = isActive])
  /\ repoCalls' = [repoCalls EXCEPT ![q] = IF u = Nil THEN NoCalls ELSE OneWrite]
  /\ UNCHANGED <<teams, pull_requests, pr_reviewers, clock>>
  /\ IF u = Nil
       THEN /\ Finish(q, ErrNew("user_id cannot be nil UUID"), NoRet)
            /\ UNCHANGED users
     ELSE IF ~UserExists(u)
       THEN /\ Finish(q, Wrap("failed to set user active", ErrNew("USER_NOT_FOUND")), NoRet)
            /\ UNCHANGED users
     ELSE /\ users' = [users EXCEPT ![u].active = isActive]
          /\ Goto(q, "sa_get")
          /\ UNCHANGED locals

\* repo.GetUserByID and return
SetUserActiveGet(q) ==
  /\ pc[q] = "sa_get"
  /\ repoCalls' = [repoCalls EXCEPT ![q].reads = @ + 1]
  /\ LET u == call[q].user IN
     IF ~UserExists(u)
       THEN Finish(q, ErrNew("USER_NOT_FOUND"), NoRet)
       ELSE Finish(q, <<>>, [NoRet EXCEPT !.user = u, !.active = users[u].active])
  /\ UNCHANGED <<dbvars, clock, calls, call>>

\* cfg.AdminToken: ADMIN_TOKEN of the environment, "admin-secret" by default
AdminToken == "admin-secret"

\* X-Admin-Token headers of requests: none, the configured one, another one
TokenInputs == {"", AdminToken, "guess"}

\* variant: the header must be present, its value is not compared
AdminAuth_HeaderOnly(adminToken, token) ==
  IF token = "" THEN <<"StatusUnauthorized", "UNAUTHORIZED">>
  ELSE <<>>

\* middleware.AdminAuth: the response that aborts the request, or <<>> for c.Next()
AdminAuth(adminToken, token) ==
  IF token = "" THEN <<"StatusUnauthorized", "UNAUTHORIZED">>
  ELSE IF token # adminToken THEN <<"StatusUnauthorized", "UNAUTHORIZED">>
  ELSE <<>>

\* POST /users/setIsActive: AdminAuth, then Handler.SetUserActive, which
\* calls the service
SetIsActiveRequest(q, token, u, isActive) ==
  IF AdminAuth(AdminToken, token) # <<>>
    THEN /\ Begin(q, [NoCall EXCEPT !.op = "POST /users/setIsActive", !.user = u,
                                    !.flag = isActive, !.token = token])
         /\ Finish(q, <<AdminAuth(AdminToken, token)[2]>>, NoRet)
         /\ repoCalls' = [repoCalls EXCEPT ![q] = NoCalls]
         /\ UNCHANGED <<dbvars, clock>>
    ELSE SetUserActive(q, u, isActive)

(* ------------------------------ GetPRByID ----------------------------- *)
\* first statement of Repository.GetPRByID: SELECT ... FROM pull_requests
GetPRRow(p) ==
  [status |-> pull_requests[p].status, author |-> pull_requests[p].author,
   mergedAt |-> pull_requests[p].mergedAt, revs |-> EmptyBag]

\* second statement of Repository.GetPRByID: SELECT user_id FROM pr_reviewers
GetPRReviewers(row, p) == [row EXCEPT !.revs = pr_reviewers[p]]

\* the trailing "return s.repo.GetPRByID(ctx, prID)" of CreatePR, MergePR and
\* ReassignReviewer, first statement
ReturnGetPR(q) ==
  /\ pc[q] = "ret_get"
  /\ repoCalls' = [repoCalls EXCEPT ![q].reads = @ + 1]
  /\ LET p == call[q].pr IN
     IF ~PRRowExists(p)
       THEN Finish(q, IF call[q].op = "ReassignReviewer"
                        THEN Wrap("failed to get updated PR", ErrNew("PR_NOT_FOUND"))
                        ELSE ErrNew("PR_NOT_FOUND"), NoRet)
       ELSE /\ pr' = [pr EXCEPT ![q] = GetPRRow(p)]
            /\ pc' = [pc EXCEPT ![q] = "ret_get2"]
            /\ UNCHANGED <<teamName, members, sel, now, err, ret, stats>>
  /\ UNCHANGED <<dbvars, clock, calls, call>>

\* second statement, and return of the record
ReturnGetPRReviewers(q) ==
  /\ pc[q] = "ret_get2"
  /\ UNCHANGED repoCalls
  /\ Finish(q, <<>>, [NoRet EXCEPT !.pr = GetPRReviewers(pr[q], call[q].pr),
                                   !.user = IF call[q].op = "ReassignReviewer"
                                              THEN sel[q][1] ELSE Nil])
  /\ UNCHANGED <<dbvars, clock, calls, call>>

(* --------------------------- selectReviewers -------------------------- *)
minInt(a, b) == IF a < b THEN a ELSE b

\* the orders rand.Shuffle can leave in the first n places
ShufflePrefixes(S, n) ==
  {s \in [1..n -> S] : \A i, j \in 1..n : i # j => s[i] # s[j]}

\* variant: the candidate filter without "&& m.IsActive"
selectReviewers_IgnoreActive(ms, excludeID, maxCount) ==
  LET candidates == {m.id : m \in {x \in ms : x.id # excludeID}}
      count == minInt(maxCount, Cardinality(candidates))
  IN  IF count = 0 THEN {<<>>} ELSE ShufflePrefixes(candidates, count)

\* variant: the candidate filter without "m.UserID != excludeID"
selectReviewers_AuthorIncluded(ms, excludeID, maxCount) ==
  LET candidates == {m.id : m \in {x \in ms : x.active}}
      count == minInt(maxCount, Cardinality(candidates))
  IN  IF count = 0 THEN {<<>>} ELSE ShufflePrefixes(candidates, count)

\* variant: each place is drawn on its own, candidates[s.rand.Intn(len)]
selectReviewers_DrawEach(ms, excludeID, maxCount) ==
  LET candidates == {m.id : m \in {x \in ms : x.id # excludeID /\ x.active}}
      count == minInt(maxCount, Cardinality(candidates))
  IN  IF count = 0 THEN {<<>>} ELSE [1..count -> candidates]

\* every result selectReviewers can return for some state of s.rand
selectReviewers(ms, excludeID, maxCount) ==
  LET candidates == {m.id : m \in {x \in ms : x.id # excludeID /\ x.active}}
      count == minInt(maxCount, Cardinality(candidates))
  IN  IF count = 0 THEN {<<>>} ELSE ShufflePrefixes(candidates, count)

(* ----------------------------- seeded s.rand -------------------------- *)
\* states of the generator behind s.rand; rand.NewSource(seed) gives the first
Seeds == 0..3
RandMod == 16

\* the generator's next state (a full-period congruential step stands for
\* the additive generator of math/rand)
RandStep(s) == (5 * s + 3) % RandMod

\* r.Intn(n) in state s: a value in 0..n-1
Intn(s, n) == (s \div 2) % n

Swap(c, i, j) == [c EXCEPT ![i] = c[j], ![j] = c[i]]

\* r.Shuffle: for i := n-1; i > 0; i-- { j := r.Intn(i+1); swap(i, j) },
\* places counted from 1
RECURSIVE Shuffle(_, _, _)
Shuffle(c, k, s) ==
  IF k <= 1 THEN c
  ELSE Shuffle(Swap(c, k, Intn(s, k) + 1), k - 1, RandStep(s))

IsCandidate(m, excludeIDs) == m.id \notin excludeIDs /\ m.active

\* selectReviewers on the member list ms, in its order, with s.rand in state s
selectReviewersWith(ms, excludeID, maxCount, s) ==
  LET candidates == SelectSeq(ms, LAMBDA m : IsCandidate(m, {excludeID}))
      count == minInt(maxCount, Len(candidates))
      shuffled == Shuffle(candidates, Len(candidates), s)
  IN  IF count = 0 THEN <<>> ELSE [i \in 1..count |-> shuffled[i].id]

\* the candidates loop of ReassignReviewer and
\* candidates[s.rand.Intn(len(candidates))], with s.rand in state s
ReassignPickWith(ms, rec, s) ==
  LET excludeIDs == {rec.author} \cup BagToSet(rec.revs)
      candidates == SelectSeq(ms, LAMBDA m : IsCandidate(m, excludeIDs))
  IN  IF Len(candidates) = 0 THEN <<>>
      ELSE <<candidates[Intn(s, Len(candidates)) + 1].id>>

(* ------------------------------ CreatePR ------------------------------ *)
\* variant: the existence check always answers false
PRExists_Never(p) == FALSE

\* Repository.PRExists: SELECT EXISTS(SELECT 1 FROM pull_requests WHERE id = $1)
PRExists(p) == PRRowExists(p)

\* ReviewerService.CreatePR up to and including repo.PRExists
CreatePR(q, prID, prName, authorID) ==
  /\ Begin(q, [NoCall EXCEPT !.op = "CreatePR", !.pr = prID, !.name = prName, !.user = authorID])
  /\ repoCalls' = [repoCalls EXCEPT ![q] = IF ValidatePullRequest(prID, prName, authorID, StatusOpen) # <<>> THEN NoCalls ELSE OneRead]
  /\ UNCHANGED <<dbvars, clock>>
  /\ LET v == ValidatePullRequest(prID, prName, authorID, StatusOpen) IN
     IF v # <<>>
       THEN Finish(q, Wrap("validation error", v), NoRet)
     ELSE IF PRExists(prID)
       THEN Finish(q, ErrNew("PR_EXISTS"), NoRet)
     ELSE /\ Goto(q, "cp_author")
          /\ UNCHANGED locals

\* author, err := s.repo.GetUserByID(ctx, authorID)
CreatePRAuthor(q) ==
  /\ pc[q] = "cp_author"
  /\ repoCalls' = [repoCalls EXCEPT ![q].reads = @ + 1]
  /\ IF ~UserExists(call[q].user)
       THEN Finish(q, Wrap("failed to get author", ErrNew("USER_NOT_FOUND")), NoRet)
       ELSE /\ teamName' = [teamName EXCEPT ![q] = users[call[q].user].team]
            /\ pc' = [pc EXCEPT ![q] = "cp_members"]
            /\ UNCHANGED <<pr, members, sel, now, err, ret, stats>>
  /\ UNCHANGED <<dbvars, clock, calls, call>>

\* GetTeamMembers, selectReviewers, ValidateReviewersCount
CreatePRMembers(q) ==
  /\ pc[q] = "cp_members"
  /\ repoCalls' = [repoCalls EXCEPT ![q].reads = @ + 1]
  /\ LET ms == GetTeamMembers(teamName[q]) IN
     \E reviewers \in selectReviewers(ms, call[q].user, ReviewersPerPR) :
       IF ValidateReviewersCount(reviewers) # <<>>
         THEN Finish(q, Wrap("validation error", ValidateReviewersCount(reviewers)), NoRet)
         ELSE /\ members' = [members EXCEPT ![q] = ms]
              /\ sel' = [sel EXCEPT ![q] = reviewers]
              /\ pc' = [pc EXCEPT ![q] = "cp_insert"]
              /\ UNCHANGED <<pr, teamName, now, err, ret, stats>>
  /\ UNCHANGED <<dbvars, clock, calls, call>>

\* PRIMARY KEY (pull_request_id): a row with this id is already stored
PRKeyViolation(p) == PRRowExists(p)

\* variant: pr_reviewers without its primary key
ReviewerKeyViolation_NoKey(rows, u) == FALSE

\* PRIMARY KEY (pull_request_id, user_id): rows already holds user u
ReviewerKeyViolation(rows, u) == BagIn(u, rows)

\* the INSERT INTO pr_reviewers loop; <<ok, rows>>
RECURSIVE InsertReviewers(_, _)
InsertReviewers(rows, reviewers) ==
  IF reviewers = <<>> THEN <<TRUE, rows>>
  ELSE IF ReviewerKeyViolation(rows, Head(reviewers)) THEN <<FALSE, rows>>
  ELSE InsertReviewers(rows (+) SetToBag({Head(reviewers)}), Tail(reviewers))

\* Repository.CreatePR: one transaction
CreatePRInsert(q) ==
  /\ pc[q] = "cp_insert"
  /\ repoCalls' = [repoCalls EXCEPT ![q].writes = @ + 1]
  /\ LET p == call[q].pr
         ins == InsertReviewers(EmptyBag, sel[q])
     IN
     IF PRKeyViolation(p)
       THEN /\ Finish(q, Wrap("failed to create PR", ErrNew("PR_EXISTS")), NoRet)
            /\ UNCHANGED dbvars
     ELSE IF ~ins[1]
       THEN /\ Finish(q, Wrap("failed to create PR",
                              Wrap("failed to insert reviewer", ErrNew("pq: 23505"))), NoRet)
            /\ UNCHANGED dbvars
     ELSE /\ pull_requests' = [pull_requests EXCEPT ![p] =
                 [status |-> StatusOpen, author |-> call[q].user, mergedAt |-> 0]]
          /\ pr_reviewers' = [pr_reviewers EXCEPT ![p] = ins[2]]
          /\ UNCHANGED <<teams, users>>
          /\ pc' = [pc EXCEPT ![q] = "ret_get"]
          /\ members' = [members EXCEPT ![q] = {}]
          /\ teamName' = [teamName EXCEPT ![q] = NoTeam]
          /\ sel' = [sel EXCEPT ![q] = <<>>]
          /\ UNCHANGED <<pr, now, err, ret, stats>>
  /\ UNCHANGED <<clock, calls, call>>

(* ------------------------------- MergePR ------------------------------ *)
\* ReviewerService.MergePR up to the first statement of GetPRByID
MergePR(q, prID) ==
  /\ Begin(q, [NoCall EXCEPT !.op = "MergePR", !.pr = prID])
  /\ repoCalls' = [repoCalls EXCEPT ![q] = IF prID = Nil THEN NoCalls ELSE OneRead]
  /\ UNCHANGED <<dbvars, clock>>
  /\ IF prID = Nil
       THEN Finish(q, ErrNew("pull_request_id cannot be nil UUID"), NoRet)
     ELSE IF ~PRRowExists(prID)
       THEN Finish(q, Wrap("failed to get PR", ErrNew("PR_NOT_FOUND")), NoRet)
     ELSE /\ Goto(q, "mg_get2")
          /\ pr' = [pr EXCEPT ![q] = GetPRRow(prID)]
          /\ UNCHANGED <<teamName, members, sel, now, stats>>

\* variant: MergePR without the early return
AlreadyMerged_Never(rec) == FALSE

\* if pr.Status == domain.StatusMerged { return pr, nil }
AlreadyMerged(rec) == rec.status = StatusMerged

\* second statement of GetPRByID, the status check and now := time.Now()
MergePRCheck(q) ==
  /\ pc[q] = "mg_get2"
  /\ UNCHANGED repoCalls
  /\ LET rec == GetPRReviewers(pr[q], call[q].pr) IN
     IF AlreadyMerged(rec)
       THEN /\ Finish(q, <<>>, [NoRet EXCEPT !.pr = rec])
            /\ UNCHANGED clock
       ELSE \E t \in clock..MaxClock :
              /\ clock' = t
              /\ now' = [now EXCEPT ![q] = t]
              /\ pr' = [pr EXCEPT ![q] = rec]
              /\ pc' = [pc EXCEPT ![q] = "mg_write"]
              /\ UNCHANGED <<teamName, members, sel, err, ret, stats>>
  /\ UNCHANGED <<dbvars, calls, call>>

\* variant: the UPDATE sets the status and leaves merged_at alone
UpdatePRStatus_StatusOnly(prs, p, status, mergedAt) ==
  IF prs[p].status = NoStatus THEN prs
  ELSE [prs EXCEPT ![p].status = status]

\* variant: an UPDATE that reopens a PR found merged
UpdatePRStatus_Reopen(prs, p, status, mergedAt) ==
  IF prs[p].status = NoStatus THEN prs
  ELSE IF prs[p].status = StatusMerged
    THEN [prs EXCEPT ![p].status = StatusOpen, ![p].mergedAt = 0]
  ELSE [prs EXCEPT ![p].status = status, ![p].mergedAt = mergedAt]

\* Repository.UpdatePRStatus: UPDATE pull_requests SET status, merged_at WHERE id
UpdatePRStatus(prs, p, status, mergedAt) ==
  IF prs[p].status = NoStatus THEN prs
  ELSE [prs EXCEPT ![p].status = status, ![p].mergedAt = mergedAt]

\* s.repo.UpdatePRStatus(ctx, prID, domain.StatusMerged, &now)
MergePRWrite(q) ==
  /\ pc[q] = "mg_write"
  /\ repoCalls' = [repoCalls EXCEPT ![q].writes = @ + 1]
  /\ pull_requests' = UpdatePRStatus(pull_requests, call[q].pr, StatusMerged, now[q])
  /\ pc' = [pc EXCEPT ![q] = "ret_get"]
  /\ pr' = [pr EXCEPT ![q] = NoPR]
  /\ now' = [now EXCEPT ![q] = 0]
  /\ UNCHANGED <<teams, users, pr_reviewers, clock, calls, call, teamName, members, sel, err, ret, stats>>

(* --------------------------- ReassignReviewer ------------------------- *)
\* ReviewerService.ReassignReviewer up to the first statement of GetPRByID
ReassignReviewer(q, prID, oldUserID) ==
  /\ Begin(q, [NoCall EXCEPT !.op = "ReassignReviewer", !.pr = prID, !.user = oldUserID])
  /\ repoCalls' = [repoCalls EXCEPT ![q] = IF prID = Nil \/ oldUserID = Nil THEN NoCalls ELSE OneRead]
  /\ UNCHANGED <<dbvars, clock>>
  /\ IF prID = Nil \/ oldUserID = Nil
       THEN Finish(q, ErrNew("IDs cannot be nil UUID"), NoRet)
     ELSE IF ~PRRowExists(prID)
       THEN Finish(q, Wrap("failed to get PR", ErrNew("PR_NOT_FOUND")), NoRet)
     ELSE /\ Goto(q, "ra_get2")
          /\ pr' = [pr EXCEPT ![q] = GetPRRow(prID)]
          /\ UNCHANGED <<teamName, members, sel, now, stats>>

\* variant: the isAssigned loop placed before the status check
ReassignPrecheck_AssignedFirst(rec, oldUserID) ==
  IF ~BagIn(oldUserID, rec.revs) THEN ErrNew("NOT_ASSIGNED")
  ELSE IF rec.status = StatusMerged THEN ErrNew("PR_MERGED")
  ELSE <<>>

\* the status check and the isAssigned loop, in the order of the code
ReassignPrecheck(rec, oldUserID) ==
  IF rec.status = StatusMerged THEN ErrNew("PR_MERGED")
  ELSE IF ~BagIn(oldUserID, rec.revs) THEN ErrNew("NOT_ASSIGNED")
  ELSE <<>>

\* second statement of GetPRByID, then the status and isAssigned checks
ReassignCheck(q) ==
  /\ pc[q] = "ra_get2"
  /\ UNCHANGED repoCalls
  /\ LET rec == GetPRReviewers(pr[q], call[q].pr) IN
     IF ReassignPrecheck(rec, call[q].user) # <<>>
       THEN Finish(q, ReassignPrecheck(rec, call[q].user), NoRet)
     ELSE /\ pr' = [pr EXCEPT ![q] = rec]
          /\ pc' = [pc EXCEPT ![q] = "ra_user"]
          /\ UNCHANGED <<teamName, members, sel, now, err, ret, stats>>
  /\ UNCHANGED <<dbvars, clock, calls, call>>

\* variant: an old reviewer that is no longer active is refused
ReassignOldUser_ActiveOnly(q) ==
  /\ pc[q] = "ra_user"
  /\ repoCalls' = [repoCalls EXCEPT ![q].reads = @ + 1]
  /\ IF ~UserExists(call[q].user) \/ ~users[call[q].user].active
       THEN Finish(q, Wrap("failed to get old user", ErrNew("USER_NOT_FOUND")), NoRet)
       ELSE /\ teamName' = [teamName EXCEPT ![q] = users[call[q].user].team]
            /\ pc' = [pc EXCEPT ![q] = "ra_members"]
            /\ UNCHANGED <<pr, members, sel, now, err, ret, stats>>
  /\ UNCHANGED <<dbvars, clock, calls, call>>

\* oldUser, err := s.repo.GetUserByID(ctx, oldUserID)
ReassignOldUser(q) ==
  /\ pc[q] = "ra_user"
  /\ repoCalls' = [repoCalls EXCEPT ![q].reads = @ + 1]
  /\ IF ~UserExists(call[q].user)
       THEN Finish(q, Wrap("failed to get old user", ErrNew("USER_NOT_FOUND")), NoRet)
       ELSE /\ teamName' = [teamName EXCEPT ![q] = users[call[q].user].team]
            /\ pc' = [pc EXCEPT ![q] = "ra_members"]
            /\ UNCHANGED <<pr, members, sel, now, err, ret, stats>>
  /\ UNCHANGED <<dbvars, clock, calls, call>>

\* variant: the exclude set without the PR author
Candidates_AuthorNotExcluded(ms, rec) ==
  LET excludeIDs == BagToSet(rec.revs)
  IN  {m.id : m \in {x \in ms : x.id \notin excludeIDs /\ x.active}}

\* the candidates loop of ReassignReviewer
Candidates(ms, rec) ==
  LET excludeIDs == {rec.author} \cup BagToSet(rec.revs)
  IN  {m.id : m \in {x \in ms : x.id \notin excludeIDs /\ x.active}}

\* GetTeamMembers, candidates, newReviewer := candidates[s.rand.Intn(len(candidates))]
ReassignMembers(q) ==
  /\ pc[q] = "ra_members"
  /\ repoCalls' = [repoCalls EXCEPT ![q].reads = @ + 1]
  /\ LET ms == GetTeamMembers(teamName[q])
         candidates == Candidates(ms, pr[q])
     IN
     IF candidates = {}
       THEN Finish(q, ErrNew("NO_CANDIDATE"), NoRet)
       ELSE \E newReviewer \in candidates :
              /\ members' = [members EXCEPT ![q] = ms]
              /\ sel' = [sel EXCEPT ![q] = <<newReviewer>>]
              /\ pc' = [pc EXCEPT ![q] = "ra_write"]
              /\ UNCHANGED <<pr, teamName, now, err, ret, stats>>
  /\ UNCHANGED <<dbvars, clock, calls, call>>

\* variant: RowsAffected is not examined
ReplaceReviewer_IgnoreRowsAffected(rows, oldUserID, newUserID) ==
  LET matched == CopiesIn(oldUserID, rows)
      rest == rows (-) [u \in {oldUserID} |-> matched]
  IN  IF matched = 0 THEN <<(<<>>), rows>>
      ELSE IF ReviewerKeyViolation(rest, newUserID) \/ matched > 1
        THEN <<Wrap("failed to replace reviewer", ErrNew("pq: 23505")), rows>>
      ELSE <<(<<>>), rest (+) SetToBag({newUserID})>>

\* variant: the new row is inserted and the old row is kept
ReplaceReviewer_KeepOld(rows, oldUserID, newUserID) ==
  IF CopiesIn(oldUserID, rows) = 0 THEN <<ErrNew("REVIEWER_NOT_FOUND"), rows>>
  ELSE IF ReviewerKeyViolation(rows, newUserID)
    THEN <<Wrap("failed to replace reviewer", ErrNew("pq: 23505")), rows>>
  ELSE <<(<<>>), rows (+) SetToBag({newUserID})>>

\* Repository.ReplaceReviewer: UPDATE pr_reviewers SET user_id = new
\* WHERE pull_request_id = p AND user_id = old; <<error, rows>>
ReplaceReviewer(rows, oldUserID, newUserID) ==
  LET matched == CopiesIn(oldUserID, rows)
      rest == rows (-) [u \in {oldUserID} |-> matched]
  IN  IF matched = 0 THEN <<ErrNew("REVIEWER_NOT_FOUND"), rows>>
      ELSE IF ReviewerKeyViolation(rest, newUserID) \/ matched > 1
        THEN <<Wrap("failed to replace reviewer", ErrNew("pq: 23505")), rows>>
      ELSE <<(<<>>), rest (+) SetToBag({newUserID})>>

\* variant: a failed ReplaceReviewer is issued again (up to three times)
ReassignWrite_Retry(q) ==
  /\ pc[q] = "ra_write"
  /\ repoCalls' = [repoCalls EXCEPT ![q].writes = @ + 1]
  /\ LET p == call[q].pr
         res == ReplaceReviewer(pr_reviewers[p], call[q].user, sel[q][1])
     IN
     IF res[1] # <<>> /\ repoCalls[q].writes < 2
       THEN UNCHANGED <<dbvars, pc, pr, teamName, members, sel, now, err, ret, stats>>
     ELSE IF res[1] # <<>>
       THEN /\ Finish(q, Wrap("failed to replace reviewer", res[1]), NoRet)
            /\ UNCHANGED dbvars
       ELSE /\ pr_reviewers' = [pr_reviewers EXCEPT ![p] = res[2]]
            /\ UNCHANGED <<teams, users, pull_requests>>
            /\ pc' = [pc EXCEPT ![q] = "ret_get"]
            /\ pr' = [pr EXCEPT ![q] = NoPR]
            /\ members' = [members EXCEPT ![q] = {}]
            /\ teamName' = [teamName EXCEPT ![q] = NoTeam]
            /\ UNCHANGED <<sel, now, err, ret, stats>>
  /\ UNCHANGED <<clock, calls, call>>

\* variant: the isAssigned check left to the UPDATE, whose zero
\* RowsAffected is answered as NOT_ASSIGNED
ReassignWrite_NotAssigned(q) ==
  /\ pc[q] = "ra_write"
  /\ repoCalls' = [repoCalls EXCEPT ![q].writes = @ + 1]
  /\ LET p == call[q].pr
         res == ReplaceReviewer(pr_reviewers[p], call[q].user, sel[q][1])
     IN
     IF res[1] = ErrNew("REVIEWER_NOT_FOUND")
       THEN /\ Finish(q, ErrNew("NOT_ASSIGNED"), NoRet)
            /\ UNCHANGED dbvars
     ELSE IF res[1] # <<>>
       THEN /\ Finish(q, Wrap("failed to replace reviewer", res[1]), NoRet)
            /\ UNCHANGED dbvars
       ELSE /\ pr_reviewers' = [pr_reviewers EXCEPT ![p] = res[2]]
            /\ UNCHANGED <<teams, users, pull_requests>>
            /\ pc' = [pc EXCEPT ![q] = "ret_get"]
            /\ pr' = [pr EXCEPT ![q] = NoPR]
            /\ members' = [members EXCEPT ![q] = {}]
            /\ teamName' = [teamName EXCEPT ![q] = NoTeam]
            /\ UNCHANGED <<sel, now, err, ret, stats>>
  /\ UNCHANGED <<clock, calls, call>>

\* s.repo.ReplaceReviewer(ctx, prID, oldUserID, newReviewer.UserID)
ReassignWrite(q) ==
  /\ pc[q] = "ra_write"
  /\ repoCalls' = [repoCalls EXCEPT ![q].writes = @ + 1]
  /\ LET p == call[q].pr
         res == ReplaceReviewer(pr_reviewers[p], call[q].user, sel[q][1])
     IN
     IF res[1] # <<>>
       THEN /\ Finish(q, Wrap("failed to replace reviewer", res[1]), NoRet)
            /\ UNCHANGED dbvars
       ELSE /\ pr_reviewers' = [pr_reviewers EXCEPT ![p] = res[2]]
            /\ UNCHANGED <<teams, users, pull_requests>>
            /\ pc' = [pc EXCEPT ![q] = "ret_get"]
            /\ pr' = [pr EXCEPT ![q] = NoPR]
            /\ members' = [members EXCEPT ![q] = {}]
            /\ teamName' = [teamName EXCEPT ![q] = NoTeam]
            /\ UNCHANGED <<sel, now, err, ret, stats>>
  /\ UNCHANGED <<clock, calls, call>>

(* ---------------------------- GetUserReviews -------------------------- *)
\* user ids of GET /users/getReview
GetUserReviewsInputs == UserIds \cup {Nil}

\* variant: the query restricted to open PRs
GetPRsByReviewer_OpenOnly(userID) ==
  LET found == {p \in PRIds : /\ PRRowExists(p)
                              /\ BagIn(userID, pr_reviewers[p])
                              /\ pull_requests[p].status = StatusOpen}
  IN  [r \in {[id |-> p, status |-> pull_requests[p].status] : p \in found}
         |-> CopiesIn(userID, pr_reviewers[r.id])]

\* Repository.GetPRsByReviewer: SELECT pr.pull_request_id, pr.status FROM
\* pull_requests pr JOIN pr_reviewers prr ... WHERE prr.user_id = $1; one
\* result row for each reviewer row of the user (the result as a bag; the
\* name column and the order by created_at are left out)
GetPRsByReviewer(userID) ==
  LET found == {p \in PRIds : PRRowExists(p) /\ BagIn(userID, pr_reviewers[p])}
  IN  [r \in {[id |-> p, status |-> pull_requests[p].status] : p \in found}
         |-> CopiesIn(userID, pr_reviewers[r.id])]

\* ReviewerService.GetUserReviews: the nil check and the one query
GetUserReviews(q, userID) ==
  /\ Begin(q, [NoCall EXCEPT !.op = "GetUserReviews", !.user = userID])
  /\ repoCalls' = [repoCalls EXCEPT ![q] = IF userID = Nil THEN NoCalls ELSE OneRead]
  /\ IF userID = Nil
       THEN Finish(q, ErrNew("user_id cannot be nil UUID"), NoRet)
       ELSE Finish(q, <<>>, [NoRet EXCEPT !.reviews = GetPRsByReviewer(userID)])
  /\ UNCHANGED <<dbvars, clock>>

(* ----------------------------- GetStatistics -------------------------- *)
\* number of pr_reviewers rows of user u among the PRs of S
RECURSIVE ReviewerRows(_, _)
ReviewerRows(u, S) ==
  IF S = {} THEN 0
  ELSE LET p == CHOOSE x \in S : TRUE
       IN  CopiesIn(u, pr_reviewers[p]) + ReviewerRows(u, S \ {p})

PRsWithStatus(st) == {p \in PRIds : pull_requests[p].status = st}

\* Repository.GetPRStats: COUNT(*) FILTER (WHERE status = ...) FROM pull_requests
GetPRStats ==
  [open |-> Cardinality(PRsWithStatus(StatusOpen)),
   merged |-> Cardinality(PRsWithStatus(StatusMerged)),
   total |-> Cardinality({p \in PRIds : PRRowExists(p)})]

\* variant: total_assignments as COUNT(*), which counts the one all-null row
\* that the LEFT JOIN yields for a user without reviewer rows
GetUserAssignmentStats_CountStar ==
  {[id |-> u, username |-> users[u].username, team |-> users[u].team,
    total |-> IF ReviewerRows(u, {p \in PRIds : PRRowExists(p)}) = 0 THEN 1
              ELSE ReviewerRows(u, {p \in PRIds : PRRowExists(p)}),
    open |-> ReviewerRows(u, PRsWithStatus(StatusOpen)),
    merged |-> ReviewerRows(u, PRsWithStatus(StatusMerged))]
     : u \in {v \in DOMAIN users : users[v].team \in teams}}

\* Repository.GetUserAssignmentStats: users JOIN teams LEFT JOIN pr_reviewers
\* LEFT JOIN pull_requests GROUP BY user
GetUserAssignmentStats ==
  {[id |-> u, username |-> users[u].username, team |-> users[u].team,
    total |-> ReviewerRows(u, {p \in PRIds : PRRowExists(p)}),
    open |-> ReviewerRows(u, PRsWithStatus(StatusOpen)),
    merged |-> ReviewerRows(u, PRsWithStatus(StatusMerged))]
     : u \in {v \in DOMAIN users : users[v].team \in teams}}

\* SELECT COUNT(*) FROM users
GetTotalUsers == Cardinality({u \in DOMAIN users : UserExists(u)})
\* SELECT COUNT(*) FROM teams
GetTotalTeams == Cardinality(teams)
\* SELECT COUNT(*) FROM users WHERE is_active = true
GetActiveUsers == Cardinality({u \in DOMAIN users : UserExists(u) /\ users[u].active})

\* a failed read: the repository wraps the driver error, the service wraps
\* the repository error
StatsReadError(servicePrefix, repoPrefix) ==
  Wrap(servicePrefix, Wrap(repoPrefix, ErrNew("context deadline exceeded")))

\* ReviewerService.GetStatistics up to and including repo.GetPRStats
GetStatistics(q) ==
  /\ Begin(q, [NoCall EXCEPT !.op = "GetStatistics"])
  /\ repoCalls' = [repoCalls EXCEPT ![q] = OneRead]
  /\ UNCHANGED <<dbvars, clock>>
  /\ \/ /\ Goto(q, "st_users")
        /\ stats' = [stats EXCEPT ![q] = [NoStats EXCEPT !.prStats = GetPRStats]]
        /\ UNCHANGED <<pr, teamName, members, sel, now>>
     \/ Finish(q, StatsReadError("failed to get PR stats", "failed to get PR stats"), NoRet)

\* userStats, err := s.repo.GetUserAssignmentStats(ctx)
GetStatisticsUsers(q) ==
  /\ pc[q] = "st_users"
  /\ repoCalls' = [repoCalls EXCEPT ![q].reads = @ + 1]
  /\ \/ /\ stats' = [stats EXCEPT ![q].userStats = GetUserAssignmentStats]
        /\ pc' = [pc EXCEPT ![q] = "st_total"]
        /\ UNCHANGED <<pr, teamName, members, sel, now, err, ret>>
     \/ Finish(q, StatsReadError("failed to get user stats",
                                 "failed to get user assignment stats"), NoRet)
  /\ UNCHANGED <<dbvars, clock, calls, call>>

\* totalUsers, err := s.repo.GetTotalUsers(ctx)
GetStatisticsTotalUsers(q) ==
  /\ pc[q] = "st_total"
  /\ repoCalls' = [repoCalls EXCEPT ![q].reads = @ + 1]
  /\ \/ /\ stats' = [stats EXCEPT ![q].totalUsers = GetTotalUsers]
        /\ pc' = [pc EXCEPT ![q] = "st_teams"]
        /\ UNCHANGED <<pr, teamName, members, sel, now, err, ret>>
     \/ Finish(q, StatsReadError("failed to get total users", "failed to get total users"), NoRet)
  /\ UNCHANGED <<dbvars, clock, calls, call>>

\* variant: a failed GetTotalTeams is taken as 0 teams and the call goes on
GetStatisticsTotalTeams_IgnoreError(q) ==
  /\ pc[q] = "st_teams"
  /\ repoCalls' = [repoCalls EXCEPT ![q].reads = @ + 1]
  /\ \E n \in {GetTotalTeams, 0} :
       /\ stats' = [stats EXCEPT ![q].totalTeams = n]
       /\ pc' = [pc EXCEPT ![q] = "st_active"]
       /\ UNCHANGED <<pr, teamName, members, sel, now, err, ret>>
  /\ UNCHANGED <<dbvars, clock, calls, call>>

\* totalTeams, err := s.repo.GetTotalTeams(ctx)
GetStatisticsTotalTeams(q) ==
  /\ pc[q] = "st_teams"
  /\ repoCalls' = [repoCalls EXCEPT ![q].reads = @ + 1]
  /\ \/ /\ stats' = [stats EXCEPT ![q].totalTeams = GetTotalTeams]
        /\ pc' = [pc EXCEPT ![q] = "st_active"]
        /\ UNCHANGED <<pr, teamName, members, sel, now, err, ret>>
     \/ Finish(q, StatsReadError("failed to get total teams", "failed to get total teams"), NoRet)
  /\ UNCHANGED <<dbvars, clock, calls, call>>

\* activeUsers, err := s.repo.GetActiveUsers(ctx), and the return of the report
GetStatisticsActive(q) ==
  /\ pc[q] = "st_active"
  /\ repoCalls' = [repoCalls EXCEPT ![q].reads = @ + 1]
  /\ \/ Finish(q, <<>>, [NoRet EXCEPT !.stats =
                            [stats[q] EXCEPT !.activeUsers = GetActiveUsers]])
     \/ Finish(q, StatsReadError("failed to get active users", "failed to get active users"), NoRet)
  /\ UNCHANGED <<dbvars, clock, calls, call>>

(* ------------------------------- handler ------------------------------ *)
\* err.Error() of a chain built by fmt.Errorf("<prefix>: %w", err)
RECURSIVE ErrorString(_)
ErrorString(e) ==
  IF Len(e) = 1 THEN e[1] ELSE e[1] \o ": " \o ErrorString(Tail(e))

\* the <<status, error code>> Handler.SetUserActive sends for a service error
SetUserActiveResponse(e) ==
  IF ErrorString(e) = "USER_NOT_FOUND" THEN <<"StatusNotFound", "NOT_FOUND">>
  ELSE <<"StatusInternalServerError", "INTERNAL_ERROR">>

\* Handler.CreatePR
CreatePRResponse(e) ==
  IF ErrorString(e) = "PR_EXISTS" THEN <<"StatusConflict", "PR_EXISTS">>
  ELSE IF ErrorString(e) = "USER_NOT_FOUND" THEN <<"StatusNotFound", "NOT_FOUND">>
  ELSE <<"StatusInternalServerError", "INTERNAL_ERROR">>

\* Handler.MergePR
MergePRResponse(e) ==
  IF ErrorString(e) = "PR_NOT_FOUND" THEN <<"StatusNotFound", "NOT_FOUND">>
  ELSE <<"StatusInternalServerError", "INTERNAL_ERROR">>

\* Handler.ReassignReviewer
ReassignReviewerResponse(e) ==
  LET msg == ErrorString(e) IN
  IF msg = "PR_MERGED" THEN <<"StatusConflict", "PR_MERGED">>
  ELSE IF msg = "NOT_ASSIGNED" THEN <<"StatusConflict", "NOT_ASSIGNED">>
  ELSE IF msg = "NO_CANDIDATE" THEN <<"StatusConflict", "NO_CANDIDATE">>
  ELSE IF msg = "PR_NOT_FOUND" THEN <<"StatusNotFound", "NOT_FOUND">>
  ELSE <<"StatusInternalServerError", "INTERNAL_ERROR">>

(* -------------- Repository.CreatePR, statement by statement ----------- *)
\* another open transaction has inserted PR id p and has not committed: an
\* INSERT of the same key waits for it
InsertPending(q, p) ==
  \E q2 \in Procs \ {q} : pc[q2] = "tx_rev" /\ call[q2].pr = p

\* tx.ExecContext(INSERT INTO pull_requests ...); pr[q] holds the rows the
\* open transaction has written
TxInsertPR(q) ==
  /\ pc[q] = "cp_insert"
  /\ ~InsertPending(q, call[q].pr)
  /\ repoCalls' = [repoCalls EXCEPT ![q].writes = @ + 1]
  /\ IF PRKeyViolation(call[q].pr)
       THEN Finish(q, Wrap("failed to create PR", ErrNew("PR_EXISTS")), NoRet)
       ELSE /\ pr' = [pr EXCEPT ![q] = [NoPR EXCEPT !.status = StatusOpen,
                                                    !.author = call[q].user]]
            /\ pc' = [pc EXCEPT ![q] = "tx_rev"]
            /\ UNCHANGED <<teamName, members, sel, now, err, ret, stats>>
  /\ UNCHANGED <<dbvars, clock, calls, call>>

\* variant: the statements run outside a transaction, every row written so
\* far stays
Rollback_KeepWrites(buf) == buf

\* deferred tx.Rollback(): the rows of the transaction that stay stored
Rollback(buf) == NoPR

\* the tables once the rows buf of a transaction for PR id p are durable
DurablePR(p, buf) ==
  IF buf.status = NoStatus THEN pull_requests
  ELSE [pull_requests EXCEPT ![p] =
          [status |-> buf.status, author |-> buf.author, mergedAt |-> buf.mergedAt]]
DurableReviewers(p, buf) ==
  IF buf.status = NoStatus THEN pr_reviewers
  ELSE [pr_reviewers EXCEPT ![p] = buf.revs]

\* one iteration of the INSERT INTO pr_reviewers loop
TxInsertReviewer(q) ==
  /\ pc[q] = "tx_rev"
  /\ sel[q] # <<>>
  /\ LET p == call[q].pr
         u == Head(sel[q])
     IN
     IF ReviewerKeyViolation(pr[q].revs, u)
       THEN /\ Finish(q, Wrap("failed to create PR",
                              Wrap("failed to insert reviewer", ErrNew("pq: 23505"))), NoRet)
            /\ pull_requests' = DurablePR(p, Rollback(pr[q]))
            /\ pr_reviewers' = DurableReviewers(p, Rollback(pr[q]))
       ELSE /\ pr' = [pr EXCEPT ![q].revs = @ (+) SetToBag({u})]
            /\ sel' = [sel EXCEPT ![q] = Tail(@)]
            /\ UNCHANGED <<pull_requests, pr_reviewers, pc, teamName, members, now, err, ret, stats>>
  /\ UNCHANGED <<teams, users, clock, calls, call, repoCalls>>

\* tx.Commit()
TxCommit(q) ==
  /\ pc[q] = "tx_rev"
  /\ sel[q] = <<>>
  /\ pull_requests' = DurablePR(call[q].pr, pr[q])
  /\ pr_reviewers' = DurableReviewers(call[q].pr, pr[q])
  /\ pc' = [pc EXCEPT ![q] = "ret_get"]
  /\ pr' = [pr EXCEPT ![q] = NoPR]
  /\ members' = [members EXCEPT ![q] = {}]
  /\ teamName' = [teamName EXCEPT ![q] = NoTeam]
  /\ UNCHANGED <<teams, users, clock, calls, call, sel, now, err, ret, stats, repoCalls>>

\* the error Repository.CreatePR returns when the statement reached at this
\* position fails (context cancelled, connection lost)
TxFailure(q) ==
  IF pc[q] = "cp_insert"
    THEN {"failed to begin transaction", "failed to insert pull request"}
  ELSE IF sel[q] # <<>> THEN {"failed to insert reviewer"}
  ELSE {"failed to commit transaction"}

\* a statement of the transaction fails: the function returns and the
\* deferred Rollback runs
TxAbort(q) ==
  /\ pc[q] \in {"cp_insert", "tx_rev"}
  /\ \E f \in TxFailure(q) :
       Finish(q, Wrap("failed to create PR", Wrap(f, ErrNew("context canceled"))), NoRet)
  /\ pull_requests' = DurablePR(call[q].pr, Rollback(pr[q]))
  /\ pr_reviewers' = DurableReviewers(call[q].pr, Rollback(pr[q]))
  /\ repoCalls' = [repoCalls EXCEPT ![q].writes = IF pc[q] = "cp_insert" THEN @ + 1 ELSE @]
  /\ UNCHANGED <<teams, users, clock, calls, call>>

(* ------------- selectReviewers with s.rand as a shared object --------- *)
\* positions inside s.rand.Shuffle; "rand_raced": another goroutine was
\* inside a method of the same *rand.Rand at some moment of this call
InRand == {"rand", "rand_raced"}

\* members, err := s.repo.GetTeamMembers(ctx, author.TeamName)
CreatePRGetMembers(q) ==
  /\ pc[q] = "cp_members"
  /\ members' = [members EXCEPT ![q] = GetTeamMembers(teamName[q])]
  /\ pc' = [pc EXCEPT ![q] = "cp_select"]
  /\ repoCalls' = [repoCalls EXCEPT ![q].reads = @ + 1]
  /\ UNCHANGED <<dbvars, clock, calls, call, pr, teamName, sel, now, err, ret, stats>>

\* the candidates loop of selectReviewers
SelectCandidates(ms, excludeID) ==
  {m.id : m \in {x \in ms : x.id # excludeID /\ x.active}}

\* selectReviewers up to the call of s.rand.Shuffle, which reads the
\* generator only when it has at least 2 elements to permute; nothing
\* guards the call
SelectEnter(q) ==
  /\ pc[q] = "cp_select"
  /\ IF Cardinality(SelectCandidates(members[q], call[q].user)) < 2
       THEN \E reviewers \in selectReviewers(members[q], call[q].user, ReviewersPerPR) :
              Finish(q, Wrap("validation error", ValidateReviewersCount(reviewers)), NoRet)
       ELSE /\ pc' = [p \in Procs |->
                       IF p = q \/ pc[p] \in InRand
                         THEN IF \E q2 \in Procs \ {q} : pc[q2] \in InRand
                                THEN "rand_raced" ELSE "rand"
                         ELSE pc[p]]
            /\ UNCHANGED <<locals, err, ret, stats>>
  /\ UNCHANGED <<dbvars, clock, calls, call, repoCalls>>

\* s.rand.Shuffle returns, then result and ValidateReviewersCount; a call
\* that raced on the generator can also panic in the generator (the router's
\* recovery ends the request)
SelectReturn(q) ==
  /\ pc[q] \in InRand
  /\ \/ \E reviewers \in selectReviewers(members[q], call[q].user, ReviewersPerPR) :
          IF ValidateReviewersCount(reviewers) # <<>>
            THEN Finish(q, Wrap("validation error", ValidateReviewersCount(reviewers)), NoRet)
            ELSE /\ sel' = [sel EXCEPT ![q] = reviewers]
                 /\ pc' = [pc EXCEPT ![q] = "cp_insert"]
                 /\ UNCHANGED <<pr, teamName, members, now, err, ret, stats>>
     \/ /\ pc[q] = "rand_raced"
        /\ Finish(q, ErrNew("panic: runtime error: index out of range"), NoRet)
  /\ UNCHANGED <<dbvars, clock, calls, call, repoCalls>>

(* ---------------------------- specification --------------------------- *)
Init ==
  /\ teams = {}
  /\ users = [u \in UserIds |-> NoUser]
  /\ pull_requests = [p \in PRIds |-> [status |-> NoStatus, author |-> Nil, mergedAt |-> 0]]
  /\ pr_reviewers = [p \in PRIds |-> EmptyBag]
  /\ clock = 1
  /\ calls = 0
  /\ pc = [q \in Procs |-> "idle"]
  /\ call = [q \in Procs |-> NoCall]
  /\ pr = [q \in Procs |-> NoPR]
  /\ teamName = [q \in Procs |-> NoTeam]
  /\ members = [q \in Procs |-> {}]
  /\ sel = [q \in Procs |-> <<>>]
  /\ now = [q \in Procs |-> 0]
  /\ err = [q \in Procs |-> <<>>]
  /\ ret = [q \in Procs |-> NoRet]
  /\ repoCalls = [q \in Procs |-> NoCalls]
  /\ stats = [q \in Procs |-> NoStats]

Next ==
  \/ \E q \in Procs, team \in TeamInputs : CreateTeam(q, team)
  \/ \E q \in Procs : CreateTeamInsert(q)
  \/ \E q \in Procs, a \in SetUserActiveInputs : SetUserActive(q, a[1], a[2])
  \/ \E q \in Procs : SetUserActiveGet(q)
  \/ \E q \in Procs, a \in CreatePRInputs : CreatePR(q, a[1], a[2], a[3])
  \/ \E q \in Procs : CreatePRAuthor(q)
  \/ \E q \in Procs : CreatePRMembers(q)
  \/ \E q \in Procs : CreatePRInsert(q)
  \/ \E q \in Procs, p \in MergePRInputs : MergePR(q, p)
  \/ \E q \in Procs : MergePRCheck(q)
  \/ \E q \in Procs : MergePRWrite(q)
  \/ \E q \in Procs, a \in ReassignInputs : ReassignReviewer(q, a[1], a[2])
  \/ \E q \in Procs : ReassignCheck(q)
  \/ \E q \in Procs : ReassignOldUser(q)
  \/ \E q \in Procs : ReassignMembers(q)
  \/ \E q \in Procs : ReassignWrite(q)
  \/ \E q \in Procs : ReturnGetPR(q)
  \/ \E q \in Procs : ReturnGetPRReviewers(q)

Spec == Init /\ [][Next]_vars

\* the steps of goroutine q after the start of its call: each is the return
\* of a repository call, which returns or is cancelled (the timeout
\* middleware cancels the request context)
Continue(q) ==
  \/ CreateTeamInsert(q)
  \/ SetUserActiveGet(q)
  \/ CreatePRAuthor(q)
  \/ CreatePRMembers(q)
  \/ CreatePRInsert(q)
  \/ MergePRCheck(q)
  \/ MergePRWrite(q)
  \/ ReassignCheck(q)
  \/ ReassignOldUser(q)
  \/ ReassignMembers(q)
  \/ ReassignWrite(q)
  \/ ReturnGetPR(q)
  \/ ReturnGetPRReviewers(q)
  \/ GetStatisticsUsers(q)
  \/ GetStatisticsTotalUsers(q)
  \/ GetStatisticsTotalTeams(q)
  \/ GetStatisticsActive(q)

\* every operation on a few requests: one team, one PR, its author A
NextLive ==
  \/ \E q \in Procs : CreateTeam(q, [name |-> "backend",
                                     members |-> <<Member("A"), Member("B"), Member("C"), Member("D")>>])
  \/ \E q \in Procs : CreateTeamInsert(q)
  \/ \E q \in Procs : SetUserActive(q, "D", FALSE)
  \/ \E q \in Procs : SetUserActiveGet(q)
  \/ \E q \in Procs : CreatePR(q, "p1", "Feature", "A")
  \/ \E q \in Procs : CreatePRAuthor(q)
  \/ \E q \in Procs : CreatePRMembers(q)
  \/ \E q \in Procs : CreatePRInsert(q)
  \/ \E q \in Procs : MergePR(q, "p1")
  \/ \E q \in Procs : MergePRCheck(q)
  \/ \E q \in Procs : MergePRWrite(q)
  \/ \E q \in Procs, u \in {"B", "C"} : ReassignReviewer(q, "p1", u)
  \/ \E q \in Procs : ReassignCheck(q)
  \/ \E q \in Procs : ReassignOldUser(q)
  \/ \E q \in Procs : ReassignMembers(q)
  \/ \E q \in Procs : ReassignWrite(q)
  \/ \E q \in Procs : ReturnGetPR(q)
  \/ \E q \in Procs : ReturnGetPRReviewers(q)
  \/ \E q \in Procs : GetStatistics(q)
  \/ \E q \in Procs : GetStatisticsUsers(q)
  \/ \E q \in Procs : GetStatisticsTotalUsers(q)
  \/ \E q \in Procs : GetStatisticsTotalTeams(q)
  \/ \E q \in Procs : GetStatisticsActive(q)

\* the runs in which no goroutine that can take a step waits for ever
SpecLive == Init /\ [][NextLive]_vars /\ \A q \in Procs : WF_vars(Continue(q))

\* the create path with Repository.CreatePR taken statement by statement
NextTx ==
  \/ \E q \in Procs, team \in TeamInputs : CreateTeam(q, team)
  \/ \E q \in Procs : CreateTeamInsert(q)
  \/ \E q \in Procs, a \in CreatePRInputsTx : CreatePR(q, a[1], a[2], a[3])
  \/ \E q \in Procs : CreatePRAuthor(q)
  \/ \E q \in Procs : CreatePRMembers(q)
  \/ \E q \in Procs : TxInsertPR(q)
  \/ \E q \in Procs : TxInsertReviewer(q)
  \/ \E q \in Procs : TxCommit(q)
  \/ \E q \in Procs : TxAbort(q)
  \/ \E q \in Procs : ReturnGetPR(q)
  \/ \E q \in Procs : ReturnGetPRReviewers(q)

SpecTx == Init /\ [][NextTx]_vars

\* requests to POST /users/setIsActive with and without the admin token
NextAuth ==
  \/ \E q \in Procs, team \in TeamInputs : CreateTeam(q, team)
  \/ \E q \in Procs : CreateTeamInsert(q)
  \/ \E q \in Procs, token \in TokenInputs, a \in SetUserActiveInputs :
       SetIsActiveRequest(q, token, a[1], a[2])
  \/ \E q \in Procs : SetUserActiveGet(q)

SpecAuth == Init /\ [][NextAuth]_vars

\* GetUserReviews next to the calls that create, merge and reassign a PR
NextReviews ==
  \/ \E q \in Procs : CreateTeam(q, [name |-> "backend",
                                     members |-> <<Member("A"), Member("B"), Member("C"), Member("D")>>])
  \/ \E q \in Procs : CreateTeamInsert(q)
  \/ \E q \in Procs : CreatePR(q, "p1", "Feature", "A")
  \/ \E q \in Procs : CreatePRAuthor(q)
  \/ \E q \in Procs : CreatePRMembers(q)
  \/ \E q \in Procs : CreatePRInsert(q)
  \/ \E q \in Procs : MergePR(q, "p1")
  \/ \E q \in Procs : MergePRCheck(q)
  \/ \E q \in Procs : MergePRWrite(q)
  \/ \E q \in Procs, u \in {"B", "C", "D"} : ReassignReviewer(q, "p1", u)
  \/ \E q \in Procs : ReassignCheck(q)
  \/ \E q \in Procs : ReassignOldUser(q)
  \/ \E q \in Procs : ReassignMembers(q)
  \/ \E q \in Procs : ReassignWrite(q)
  \/ \E q \in Procs : ReturnGetPR(q)
  \/ \E q \in Procs : ReturnGetPRReviewers(q)
  \/ \E q \in Procs, u \in GetUserReviewsInputs : GetUserReviews(q, u)

SpecReviews == Init /\ [][NextReviews]_vars

\* GetStatistics over stores with two PRs: one team, PRs of author A,
\* merges, reassignments and a deactivation
NextStore ==
  \/ \E q \in Procs : CreateTeam(q, [name |-> "backend",
                                     members |-> <<Member("A"), Member("B"), Member("C"), Member("D")>>])
  \/ \E q \in Procs : CreateTeamInsert(q)
  \/ \E q \in Procs : SetUserActive(q, "D", FALSE)
  \/ \E q \in Procs : SetUserActiveGet(q)
  \/ \E q \in Procs, p \in PRIds : CreatePR(q, p, "Feature", "A")
  \/ \E q \in Procs : CreatePRAuthor(q)
  \/ \E q \in Procs : CreatePRMembers(q)
  \/ \E q \in Procs : CreatePRInsert(q)
  \/ \E q \in Procs, p \in PRIds : MergePR(q, p)
  \/ \E q \in Procs : MergePRCheck(q)
  \/ \E q \in Procs : MergePRWrite(q)
  \/ \E q \in Procs, u \in {"B", "C"} : ReassignReviewer(q, "p1", u)
  \/ \E q \in Procs : ReassignCheck(q)
  \/ \E q \in Procs : ReassignOldUser(q)
  \/ \E q \in Procs : ReassignMembers(q)
  \/ \E q \in Procs : ReassignWrite(q)
  \/ \E q \in Procs : ReturnGetPR(q)
  \/ \E q \in Procs : ReturnGetPRReviewers(q)
  \/ \E q \in Procs : GetStatistics(q)
  \/ \E q \in Procs : GetStatisticsUsers(q)
  \/ \E q \in Procs : GetStatisticsTotalUsers(q)
  \/ \E q \in Procs : GetStatisticsTotalTeams(q)
  \/ \E q \in Procs : GetStatisticsActive(q)

SpecStore == Init /\ [][NextStore]_vars

\* GetStatistics next to the calls that write teams, users and PRs
NextStats ==
  \/ \E q \in Procs, team \in TeamInputs : CreateTeam(q, team)
  \/ \E q \in Procs : CreateTeamInsert(q)
  \/ \E q \in Procs, a \in SetUserActiveInputs : SetUserActive(q, a[1], a[2])
  \/ \E q \in Procs : SetUserActiveGet(q)
  \/ \E q \in Procs : CreatePR(q, "p1", "Feature", "A")
  \/ \E q \in Procs : CreatePRAuthor(q)
  \/ \E q \in Procs : CreatePRMembers(q)
  \/ \E q \in Procs : CreatePRInsert(q)
  \/ \E q \in Procs : MergePR(q, "p1")
  \/ \E q \in Procs : MergePRCheck(q)
  \/ \E q \in Procs : MergePRWrite(q)
  \/ \E q \in Procs : ReturnGetPR(q)
  \/ \E q \in Procs : ReturnGetPRReviewers(q)
  \/ \E q \in Procs : GetStatistics(q)
  \/ \E q \in Procs : GetStatisticsUsers(q)
  \/ \E q \in Procs : GetStatisticsTotalUsers(q)
  \/ \E q \in Procs : GetStatisticsTotalTeams(q)
  \/ \E q \in Procs : GetStatisticsActive(q)

SpecStats == Init /\ [][NextStats]_vars

\* the create path with the accesses to s.rand as steps of their own
NextRand ==
  \/ \E q \in Procs, team \in TeamInputs : CreateTeam(q, team)
  \/ \E q \in Procs : CreateTeamInsert(q)
  \/ \E q \in Procs, a \in CreatePRInputsTx : CreatePR(q, a[1], a[2], a[3])
  \/ \E q \in Procs : CreatePRAuthor(q)
  \/ \E q \in Procs : CreatePRGetMembers(q)
  \/ \E q \in Procs : SelectEnter(q)
  \/ \E q \in Procs : SelectReturn(q)
  \/ \E q \in Procs : CreatePRInsert(q)
  \/ \E q \in Procs : ReturnGetPR(q)
  \/ \E q \in Procs : ReturnGetPRReviewers(q)

SpecRand == Init /\ [][NextRand]_vars

\* selectReviewers on its own: the arguments are drawn at the start
InitSelect ==
  /\ teams = {}
  /\ users = [u \in UserIds |-> NoUser]
  /\ pull_requests = [p \in PRIds |-> [status |-> NoStatus, author |-> Nil, mergedAt |-> 0]]
  /\ pr_reviewers = [p \in PRIds |-> EmptyBag]
  /\ clock = 1
  /\ calls = 0
  /\ pc = [q \in Procs |-> "idle"]
  /\ \E excludeID \in UserIds \cup {Stranger}, maxCount \in 0..MaxCount :
       call = [q \in Procs |-> IF q = "w1"
                 THEN [NoCall EXCEPT !.op = "selectReviewers", !.user = excludeID,
                                     !.count = maxCount]
                 ELSE NoCall]
  /\ pr = [q \in Procs |-> NoPR]
  /\ teamName = [q \in Procs |-> NoTeam]
  /\ \E ms \in MemberLists : members = [q \in Procs |-> IF q = "w1" THEN ms ELSE {}]
  /\ sel = [q \in Procs |-> <<>>]
  /\ now = [q \in Procs |-> 0]
  /\ err = [q \in Procs |-> <<>>]
  /\ ret = [q \in Procs |-> NoRet]
  /\ repoCalls = [q \in Procs |-> NoCalls]
  /\ stats = [q \in Procs |-> NoStats]

\* reviewers := s.selectReviewers(members, excludeID, maxCount)
SelectReviewers(q) ==
  /\ pc[q] = "idle"
  /\ call[q].op = "selectReviewers"
  /\ \E reviewers \in selectReviewers(members[q], call[q].user, call[q].count) :
       sel' = [sel EXCEPT ![q] = reviewers]
  /\ pc' = [pc EXCEPT ![q] = "done"]
  /\ UNCHANGED <<dbvars, clock, calls, call, pr, teamName, members, now, err, ret, stats, repoCalls>>

NextSelect == \E q \in Procs : SelectReviewers(q)

\* reviewer lists of every length up to MaxReviewers (ids may repeat: the
\* validator looks at the length only)
ReviewerLists == UNION {[1..n -> UserIds] : n \in 0..MaxReviewers}

InitCount ==
  /\ teams = {}
  /\ users = [u \in UserIds |-> NoUser]
  /\ pull_requests = [p \in PRIds |-> [status |-> NoStatus, author |-> Nil, mergedAt |-> 0]]
  /\ pr_reviewers = [p \in PRIds |-> EmptyBag]
  /\ clock = 1
  /\ calls = 0
  /\ pc = [q \in Procs |-> "idle"]
  /\ call = [q \in Procs |-> IF q = "w1" THEN [NoCall EXCEPT !.op = "ValidateReviewersCount"]
                                         ELSE NoCall]
  /\ pr = [q \in Procs |-> NoPR]
  /\ teamName = [q \in Procs |-> NoTeam]
  /\ members = [q \in Procs |-> {}]
  /\ \E reviewers \in ReviewerLists : sel = [q \in Procs |-> IF q = "w1" THEN reviewers ELSE <<>>]
  /\ now = [q \in Procs |-> 0]
  /\ err = [q \in Procs |-> <<>>]
  /\ ret = [q \in Procs |-> NoRet]
  /\ repoCalls = [q \in Procs |-> NoCalls]
  /\ stats = [q \in Procs |-> NoStats]

\* err := s.validator.ValidateReviewersCount(reviewers)
ValidateCount(q) ==
  /\ pc[q] = "idle"
  /\ call[q].op = "ValidateReviewersCount"
  /\ err' = [err EXCEPT ![q] = ValidateReviewersCount(sel[q])]
  /\ pc' = [pc EXCEPT ![q] = "done"]
  /\ UNCHANGED <<dbvars, clock, calls, call, pr, teamName, members, sel, now, ret, stats, repoCalls>>

NextCount == \E q \in Procs : ValidateCount(q)

SpecCount == InitCount /\ [][NextCount]_vars

\* the text of n copies of the letter c
RECURSIVE Rep(_, _)
Rep(c, n) ==
  IF n = 0 THEN ""
  ELSE LET h == Rep(c, n \div 2)
       IN  h \o h \o (IF n % 2 = 1 THEN c ELSE "")

\* team names and usernames around the limits of the validator: empty,
\* blank, plain, 255 and 256 one-byte letters, 127 and 128 two-byte letters
NameInputs ==
  {"", " ", "  ", "backend", Rep("a", MaxNameLen), Rep("a", MaxNameLen + 1),
   Rep(TwoByteLetter, 127), Rep(TwoByteLetter, 128)}

\* request bodies of POST /team/add around the limits of the validator
ValidateTeamInputs ==
  {[name |-> n, members |-> <<Member("A")>>] : n \in NameInputs}
    \cup {[name |-> "backend", members |-> <<[Member("A") EXCEPT !.username = n]>>]
             : n \in NameInputs}
    \cup {[name |-> n, members |-> ms] :
             n \in {"backend", ""},
             ms \in {<<>>, <<Member("A"), Member("B")>>, <<Member("A"), Member("A")>>,
                     <<Member("A"), Member(Nil)>>,
                     <<Member("A"), Member("B"), [Member("A") EXCEPT !.username = "Ann"]>>}}

\* CreateTeam calls, one after the other, on request bodies around the
\* limits of the validator
NextValidate ==
  \/ \E team \in ValidateTeamInputs : CreateTeam("w1", team)
  \/ CreateTeamInsert("w1")

SpecValidate == Init /\ [][NextValidate]_vars

\* a team of five and an open PR of its member A with two reviewers from it,
\* as CreateTeam and CreatePR leave them; concurrent reassignments follow
RaceUserIds == UserIds \cup {"E"}

InitRace ==
  /\ teams = {"backend"}
  /\ users = [u \in RaceUserIds |-> [team |-> "backend", username |-> u, active |-> TRUE]]
  /\ \E r1, r2 \in RaceUserIds \ {"A"} :
       /\ r1 # r2
       /\ pull_requests = [p \in PRIds |->
             IF p = "p1" THEN [status |-> StatusOpen, author |-> "A", mergedAt |-> 0]
             ELSE [status |-> NoStatus, author |-> Nil, mergedAt |-> 0]]
       /\ pr_reviewers = [p \in PRIds |-> IF p = "p1" THEN SetToBag({r1, r2}) ELSE EmptyBag]
  /\ clock = 1
  /\ calls = 0
  /\ pc = [q \in Procs |-> "idle"]
  /\ call = [q \in Procs |-> NoCall]
  /\ pr = [q \in Procs |-> NoPR]
  /\ teamName = [q \in Procs |-> NoTeam]
  /\ members = [q \in Procs |-> {}]
  /\ sel = [q \in Procs |-> <<>>]
  /\ now = [q \in Procs |-> 0]
  /\ err = [q \in Procs |-> <<>>]
  /\ ret = [q \in Procs |-> NoRet]
  /\ repoCalls = [q \in Procs |-> NoCalls]
  /\ stats = [q \in Procs |-> NoStats]

NextRace ==
  \/ \E q \in Procs, u \in RaceUserIds : ReassignReviewer(q, "p1", u)
  \/ \E q \in Procs : ReassignCheck(q)
  \/ \E q \in Procs : ReassignOldUser(q)
  \/ \E q \in Procs : ReassignMembers(q)
  \/ \E q \in Procs : ReassignWrite(q)
  \/ \E q \in Procs : ReturnGetPR(q)
  \/ \E q \in Procs : ReturnGetPRReviewers(q)

SpecRace == InitRace /\ [][NextRace]_vars

\* member lists in the order GetTeamMembers returned them
RECURSIVE Perms(_)
Perms(S) ==
  IF S = {} THEN {<<>>}
  ELSE UNION {{<<x>> \o t : t \in Perms(S \ {x})} : x \in S}

OrderedMemberLists ==
  {[i \in 1..Len(o) |-> [Member(o[i]) EXCEPT !.active = (o[i] # "D" \/ a)]]
     : o \in Perms(UserIds), a \in BOOLEAN}

\* two runs, each with a service of its own: the same call on the same
\* ordered member list, s.rand seeded per run
InitSeed ==
  /\ teams = {}
  /\ users = [u \in UserIds |-> NoUser]
  /\ pull_requests = [p \in PRIds |-> [status |-> NoStatus, author |-> Nil, mergedAt |-> 0]]
  /\ pr_reviewers = [p \in PRIds |-> EmptyBag]
  /\ clock = 1
  /\ calls = 0
  /\ pc = [q \in Procs |-> "idle"]
  /\ \E op \in {"selectReviewers", "ReassignReviewer"}, ms \in OrderedMemberLists,
        excludeID \in {"A", Stranger}, maxCount \in 0..MaxCount,
        seed \in [Procs -> Seeds] :
       /\ call = [q \in Procs |->
                   [NoCall EXCEPT !.op = op, !.members = ms, !.user = excludeID,
                                  !.count = maxCount, !.seed = seed[q]]]
       /\ pr = [q \in Procs |->
                 IF op = "ReassignReviewer"
                   THEN [status |-> StatusOpen, author |-> excludeID, mergedAt |-> 0,
                         revs |-> SetToBag({"B"})]
                   ELSE NoPR]
  /\ teamName = [q \in Procs |-> NoTeam]
  /\ members = [q \in Procs |-> {}]
  /\ sel = [q \in Procs |-> <<>>]
  /\ now = [q \in Procs |-> 0]
  /\ err = [q \in Procs |-> <<>>]
  /\ ret = [q \in Procs |-> NoRet]
  /\ repoCalls = [q \in Procs |-> NoCalls]
  /\ stats = [q \in Procs |-> NoStats]

\* variant: the generator is seeded anew (from the clock) inside the call
SelectReviewersSeeded_Reseed(q) ==
  /\ pc[q] = "idle"
  /\ call[q].op = "selectReviewers"
  /\ \E s \in Seeds :
       sel' = [sel EXCEPT ![q] =
                 selectReviewersWith(call[q].members, call[q].user, call[q].count, s)]
  /\ pc' = [pc EXCEPT ![q] = "done"]
  /\ UNCHANGED <<dbvars, clock, calls, call, pr, teamName, members, now, err, ret, stats, repoCalls>>

\* reviewers := s.selectReviewers(members, excludeID, maxCount) in the run's
\* generator state
SelectReviewersSeeded(q) ==
  /\ pc[q] = "idle"
  /\ call[q].op = "selectReviewers"
  /\ sel' = [sel EXCEPT ![q] =
               selectReviewersWith(call[q].members, call[q].user, call[q].count, call[q].seed)]
  /\ pc' = [pc EXCEPT ![q] = "done"]
  /\ UNCHANGED <<dbvars, clock, calls, call, pr, teamName, members, now, err, ret, stats, repoCalls>>

\* the candidates loop and the pick of ReassignReviewer in the run's
\* generator state
ReassignPickSeeded(q) ==
  /\ pc[q] = "idle"
  /\ call[q].op = "ReassignReviewer"
  /\ LET picked == ReassignPickWith(call[q].members, pr[q], call[q].seed) IN
     /\ sel' = [sel EXCEPT ![q] = picked]
     /\ err' = [err EXCEPT ![q] = IF picked = <<>> THEN ErrNew("NO_CANDIDATE") ELSE <<>>]
  /\ pc' = [pc EXCEPT ![q] = "done"]
  /\ UNCHANGED <<dbvars, clock, calls, call, pr, teamName, members, now, ret, stats, repoCalls>>

NextSeed ==
  \/ \E q \in Procs : SelectReviewersSeeded(q)
  \/ \E q \in Procs : ReassignPickSeeded(q)

SpecSeed == InitSeed /\ [][NextSeed]_vars

SpecSelect == InitSelect /\ [][NextSelect]_vars

(* ============================ properties ============================== *)
\* the goroutine q takes a step of a call already in flight
Steps(q) == ~Free(q) /\ pc'[q] # pc[q]

\* the goroutine q starts a call
Starts(q) == calls' = calls + 1 /\ Free(q) /\ (q = "w2" => ~Free("w1"))

InFlightOK(q, op) ==
  call[q].op = op /\ pc[q] \in {"ret_get", "ret_get2", "done"} /\ err[q] = <<>>

(* C1: in every reachable state, for every stored PR, the author is not    *)
(* among the rows of pr_reviewers for that PR and no user id has more than *)
(* one row for that PR.                                                    *)
ExclusionInvariant ==
  \A p \in PRIds :
    PRRowExists(p) =>
      /\ ~BagIn(pull_requests[p].author, pr_reviewers[p])
      /\ \A u \in UserIds : CopiesIn(u, pr_reviewers[p]) <= 1

\* a reassignment that chose a user a concurrent reassignment had just
\* assigned was stopped by the primary key, next to a successful one
ExclusionWitness ==
  \E q \in Procs :
    /\ pc[q] = "done" /\ call[q].op = "ReassignReviewer"
    /\ err[q] # <<>> /\ Cause(err[q]) = "pq: 23505"
    /\ \E q2 \in Procs \ {q} : InFlightOK(q2, "ReassignReviewer")

(* C2: the step that stores a PR stores exactly 2 reviewer rows for it, and *)
(* no later step (in particular no ReplaceReviewer) changes the number of  *)
(* reviewer rows of a stored PR.                                           *)
CountInvariant ==
  [][\A p \in PRIds :
       /\ (~PRRowExists(p) /\ PRRowExists(p)') => BagCardinality(pr_reviewers'[p]) = 2
       /\ PRRowExists(p) => BagCardinality(pr_reviewers'[p]) = BagCardinality(pr_reviewers[p])
    ]_vars

\* a reassignment has replaced a row of a PR that still has 2 reviewers
CountWitness ==
  \E q \in Procs :
    /\ InFlightOK(q, "ReassignReviewer")
    /\ BagIn(sel[q][1], pr_reviewers[call[q].pr])
    /\ ~BagIn(call[q].user, pr_reviewers[call[q].pr])
    /\ BagCardinality(pr_reviewers[call[q].pr]) = 2

(* C3: once merged_at of a PR is non-null no step changes it, also when two *)
(* MergePR calls both read status open before either writes.               *)
MergedAtWrittenOnce ==
  [][\A p \in PRIds :
       pull_requests[p].mergedAt # 0 =>
         pull_requests'[p].mergedAt = pull_requests[p].mergedAt
    ]_vars

(* C4: a MergePR call whose GetPRByID finds the PR merged reads the stored  *)
(* status and merged_at, returns that record with a nil error, and that    *)
(* call writes nothing: status and merged_at are as before the call.       *)
MergeIdempotent ==
  [][\A q \in Procs :
       /\ ( /\ Starts(q) /\ call'[q].op = "MergePR"
            /\ PRRowExists(call'[q].pr)
            /\ pull_requests[call'[q].pr].status = StatusMerged )
          => /\ pc'[q] = "mg_get2"
             /\ pr'[q].status = StatusMerged
             /\ pr'[q].mergedAt = pull_requests[call'[q].pr].mergedAt
             /\ pull_requests' = pull_requests
       /\ ( /\ call[q].op = "MergePR" /\ pc[q] = "mg_get2"
            /\ pr[q].status = StatusMerged /\ Steps(q) )
          => /\ pc'[q] = "done" /\ err'[q] = <<>>
             /\ ret'[q].pr.status = StatusMerged
             /\ ret'[q].pr.mergedAt = pr[q].mergedAt
             /\ pull_requests' = pull_requests
             /\ pr_reviewers' = pr_reviewers
    ]_vars

\* a MergePR call has read a PR that an earlier MergePR had merged
MergeIdempotentWitness ==
  \E q \in Procs :
    /\ call[q].op = "MergePR" /\ pc[q] = "mg_get2"
    /\ pr[q].status = StatusMerged /\ pr[q].mergedAt # 0
    /\ pull_requests[call[q].pr].mergedAt = pr[q].mergedAt

(* C5: once the status of a PR is merged, no step changes its reviewer     *)
(* rows, whatever the interleaving of MergePR and ReassignReviewer.        *)
MergedPRFrozen ==
  [][\A p \in PRIds :
       pull_requests[p].status = StatusMerged => pr_reviewers'[p] = pr_reviewers[p]
    ]_vars

\* user u gets a reviewer row of PR p in this step
Assigned(p, u) == CopiesIn(u, pr_reviewers'[p]) > CopiesIn(u, pr_reviewers[p])

(* C6 as stated: every reviewer row written by CreatePR or                 *)
(* ReassignReviewer names a user whose is_active flag is true at the       *)
(* moment of the write.                                                    *)
AssignedActiveAtWrite ==
  [][\A p \in PRIds, u \in UserIds : Assigned(p, u) => users[u].active]_vars

(* C6 amended: every reviewer row written by CreatePR or ReassignReviewer  *)
(* names a user that was active in the GetTeamMembers result read by the   *)
(* writing call.                                                           *)
AssignedActiveInSnapshot ==
  [][\A p \in PRIds, u \in UserIds :
       Assigned(p, u) =>
         \E q \in Procs :
           /\ pc[q] \in {"cp_insert", "ra_write"} /\ Steps(q) /\ call[q].pr = p
           /\ [id |-> u, active |-> TRUE] \in members[q]
    ]_vars

\* a call has just written a reviewer row for a user deactivated after the
\* call read the team
AssignedActiveInSnapshotWitness ==
  \E q \in Procs :
    /\ pc[q] = "ret_get" /\ call[q].op \in {"CreatePR", "ReassignReviewer"}
    /\ \E u \in UserIds : BagIn(u, pr_reviewers[call[q].pr]) /\ ~users[u].active

(* C7: a ReplaceReviewer write for (PR, old) issued after a concurrent     *)
(* call has replaced that row matches no row, changes nothing and ends the *)
(* call with REVIEWER_NOT_FOUND; a successful write removes the (PR, old)  *)
(* row, so the other pending call cannot match it; the PR keeps 2 rows.    *)
ReassignRaceOneWinner ==
  [][\A q \in Procs :
       (pc[q] = "ra_write" /\ Steps(q)) =>
         LET p == call[q].pr
             old == call[q].user
         IN  /\ ~BagIn(old, pr_reviewers[p]) =>
                  /\ pc'[q] = "done"
                  /\ err'[q] = <<"failed to replace reviewer", "REVIEWER_NOT_FOUND">>
                  /\ pr_reviewers' = pr_reviewers
             /\ pc'[q] = "ret_get" =>
                  /\ BagIn(old, pr_reviewers[p])
                  /\ ~BagIn(old, pr_reviewers'[p])
             /\ BagCardinality(pr_reviewers'[p]) = 2
    ]_vars

\* two calls for the same (PR, old reviewer): one replaced the row, the
\* other was rejected
ReassignRaceWitness ==
  \E q \in Procs, q2 \in Procs :
    /\ q # q2
    /\ call[q].op = "ReassignReviewer" /\ call[q2] = call[q]
    /\ pc[q] = "done" /\ err[q] = <<"failed to replace reviewer", "REVIEWER_NOT_FOUND">>
    /\ InFlightOK(q2, "ReassignReviewer")
    /\ BagCardinality(pr_reviewers[call[q].pr]) = 2

(* C8: ReassignReviewer reports the first failing precondition in the      *)
(* order PR_NOT_FOUND, PR_MERGED, NOT_ASSIGNED, NO_CANDIDATE: no PR row     *)
(* gives PR_NOT_FOUND; a merged PR gives PR_MERGED whether or not the id is *)
(* assigned; an open PR with a non-assigned id gives NOT_ASSIGNED whether  *)
(* or not a candidate exists; NO_CANDIDATE only after those checks passed. *)
ReassignErrorOrder ==
  [][\A q \in Procs :
       /\ ( /\ Starts(q) /\ call'[q].op = "ReassignReviewer"
            /\ call'[q].pr # Nil /\ call'[q].user # Nil )
          => IF PRRowExists(call'[q].pr)
               THEN pc'[q] = "ra_get2"
               ELSE pc'[q] = "done" /\ err'[q] = <<"failed to get PR", "PR_NOT_FOUND">>
       /\ (pc[q] = "ra_get2" /\ Steps(q))
          => LET assigned == BagIn(call[q].user, pr_reviewers[call[q].pr]) IN
             /\ pr[q].status = StatusMerged
                  => pc'[q] = "done" /\ err'[q] = <<"PR_MERGED">>
             /\ (pr[q].status = StatusOpen /\ ~assigned)
                  => pc'[q] = "done" /\ err'[q] = <<"NOT_ASSIGNED">>
             /\ (pr[q].status = StatusOpen /\ assigned) => pc'[q] = "ra_user"
       /\ (call'[q].op = "ReassignReviewer" /\ err'[q] = <<"NO_CANDIDATE">> /\ err[q] = <<>>)
          => /\ pc[q] = "ra_members"
             /\ pr[q].status = StatusOpen
             /\ BagIn(call[q].user, pr[q].revs)
    ]_vars

\* PR_MERGED was reported for an id that is not assigned to the merged PR
ReassignErrorOrderWitness ==
  \E q \in Procs :
    /\ pc[q] = "done" /\ call[q].op = "ReassignReviewer"
    /\ err[q] = <<"PR_MERGED">>
    /\ pull_requests[call[q].pr].status = StatusMerged
    /\ ~BagIn(call[q].user, pr_reviewers[call[q].pr])

\* members of team t that are active, are not the author of p and have no
\* reviewer row of p
Eligible(t, p) ==
  {u \in UserIds : /\ users[u].team = t /\ users[u].active
                   /\ u # pull_requests[p].author
                   /\ ~BagIn(u, pr_reviewers[p])}

(* C9: for an open PR and an assigned old reviewer (and no concurrent      *)
(* change of what the call has read), ReassignReviewer ends with           *)
(* NO_CANDIDATE exactly when the old reviewer's team has no active member  *)
(* other than the author and the assigned reviewers; otherwise it picks    *)
(* such a member, its write succeeds and the call returns a nil error.     *)
NoCandidateExactly ==
  [][\A q \in Procs :
       LET p == call[q].pr
           old == call[q].user
           current == /\ pr[q].revs = pr_reviewers[p]
                      /\ pull_requests[p].status = StatusOpen
                      /\ teamName[q] = users[old].team
       IN
       /\ (pc[q] = "ra_user" /\ Steps(q)) => pc'[q] = "ra_members"
       /\ (pc[q] = "ra_members" /\ Steps(q) /\ current) =>
            IF Eligible(users[old].team, p) = {}
              THEN pc'[q] = "done" /\ err'[q] = <<"NO_CANDIDATE">>
              ELSE /\ pc'[q] = "ra_write"
                   /\ sel'[q][1] \in Eligible(users[old].team, p)
       /\ (pc[q] = "ra_write" /\ Steps(q) /\ pr[q].revs = pr_reviewers[p]) =>
            pc'[q] = "ret_get"
       /\ ( /\ call[q].op = "ReassignReviewer"
            /\ pc[q] \in {"ret_get", "ret_get2"} /\ Steps(q) ) =>
            /\ err'[q] = <<>>
            /\ pc'[q] = "done" => ret'[q].user = sel[q][1]
    ]_vars

\* NO_CANDIDATE for an assigned reviewer of an open PR whose team has no
\* eligible member
NoCandidateWitness ==
  \E q \in Procs :
    /\ pc[q] = "done" /\ call[q].op = "ReassignReviewer"
    /\ err[q] = <<"NO_CANDIDATE">>
    /\ pull_requests[call[q].pr].status = StatusOpen
    /\ BagIn(call[q].user, pr_reviewers[call[q].pr])
    /\ Eligible(users[call[q].user].team, call[q].pr) = {}

(* C10: when the author's team has fewer than 2 active members other than  *)
(* the author, CreatePR ends with a validation error; no step of a         *)
(* CreatePR call before its insert writes anything, so that call leaves no *)
(* PR row and no reviewer row.                                             *)
NotEnoughReviewersNoWrite ==
  [][\A q \in Procs :
       /\ ( /\ call[q].op = "CreatePR" /\ pc[q] = "cp_members" /\ Steps(q)
            /\ teamName[q] = users[call[q].user].team
            /\ Cardinality({u \in UserIds : /\ users[u].team = teamName[q]
                                            /\ users[u].active
                                            /\ u # call[q].user}) < 2 )
          => /\ pc'[q] = "done"
             /\ err'[q] = <<"validation error", "not enough reviewers: minimum 2 required">>
             /\ dbvars' = dbvars
       /\ ( /\ call'[q].op = "CreatePR"
            /\ \/ Starts(q)
               \/ (pc[q] \in {"cp_author", "cp_members"} /\ Steps(q)) )
          => dbvars' = dbvars
    ]_vars

\* CreatePR was rejected for lack of candidates and its PR id is not stored
NotEnoughReviewersWitness ==
  \E q \in Procs :
    /\ pc[q] = "done" /\ call[q].op = "CreatePR"
    /\ err[q] = <<"validation error", "not enough reviewers: minimum 2 required">>
    /\ ~PRRowExists(call[q].pr)
    /\ pr_reviewers[call[q].pr] = EmptyBag

(* C11: the persistence step of CreatePR is all-or-nothing: in every       *)
(* reachable state, also after a failure or cancellation part-way through  *)
(* the insert sequence, a stored PR row has its 2 reviewer rows and no     *)
(* reviewer row is stored without its PR row.                              *)
CreatePRAllOrNothing ==
  \A p \in PRIds :
    /\ PRRowExists(p) => BagCardinality(pr_reviewers[p]) = 2
    /\ pr_reviewers[p] # EmptyBag => PRRowExists(p)

\* a CreatePR call failed after its transaction had inserted the PR row, and
\* neither the row nor a reviewer row is stored
CreatePRAllOrNothingWitness ==
  \E q \in Procs :
    /\ pc[q] = "done" /\ call[q].op = "CreatePR"
    /\ Len(err[q]) = 3
    /\ err[q][2] \in {"failed to insert reviewer", "failed to commit transaction"}
    /\ ~PRRowExists(call[q].pr)
    /\ pr_reviewers[call[q].pr] = EmptyBag

\* active members of the team of user a, other than a
ActiveTeammates(a) ==
  IF UserExists(a)
    THEN {u \in UserIds : users[u].team = users[a].team /\ users[u].active /\ u # a}
    ELSE {}

(* C12: CreatePR with well-formed arguments and a PR id that is already    *)
(* stored fails with PR_EXISTS whether or not the author exists or has     *)
(* enough candidates (the existence check precedes the author lookup), and *)
(* leaves the stored PR and its reviewers unchanged.                       *)
ExistingPRRejected ==
  [][\A q \in Procs :
       ( /\ Starts(q) /\ call'[q].op = "CreatePR"
         /\ ValidatePullRequest(call'[q].pr, call'[q].name, call'[q].user, StatusOpen) = <<>>
         /\ PRRowExists(call'[q].pr) )
       => /\ pc'[q] = "done"
          /\ err'[q] = <<"PR_EXISTS">>
          /\ repoCalls'[q] = [reads |-> 1, writes |-> 0]
          /\ dbvars' = dbvars
    ]_vars

\* PR_EXISTS was returned to an author that has no users row (and so no
\* candidate reviewers)
ExistingPRRejectedWitness ==
  \E q \in Procs :
    /\ pc[q] = "done" /\ call[q].op = "CreatePR" /\ err[q] = <<"PR_EXISTS">>
    /\ PRRowExists(call[q].pr)
    /\ ~UserExists(call[q].user)
    /\ ActiveTeammates(call[q].user) = {}

(* C13: when two concurrent CreatePR calls for the same id both pass the   *)
(* existence check, one PR with 2 reviewers is stored and the losing call  *)
(* fails with the PR_EXISTS token, which the handler answers with the      *)
(* conflict response PR_EXISTS and not with an internal error.             *)
CreateRaceLoserConflict ==
  /\ \A p \in PRIds : PRRowExists(p) => BagCardinality(pr_reviewers[p]) = 2
  /\ \A q \in Procs :
       ( /\ pc[q] = "done" /\ call[q].op = "CreatePR"
         /\ err[q] # <<>> /\ Cause(err[q]) = "PR_EXISTS" )
       => CreatePRResponse(err[q]) = <<"StatusConflict", "PR_EXISTS">>

(* C14: a CreatePR call that succeeds has chosen 2 distinct reviewers from *)
(* the member list it read for the team of its author, each active in that *)
(* list and none the author, and stores exactly those two as the reviewer  *)
(* rows of the PR.                                                         *)
CreatedReviewersFromSnapshot ==
  [][\A q \in Procs :
       /\ (pc[q] = "cp_author" /\ Steps(q) /\ pc'[q] = "cp_members")
          => teamName'[q] = users[call[q].user].team
       /\ (pc[q] = "cp_members" /\ Steps(q) /\ pc'[q] = "cp_insert")
          => /\ members'[q] = GetTeamMembers(teamName[q])
             /\ Len(sel'[q]) = 2 /\ sel'[q][1] # sel'[q][2]
             /\ \A i \in 1..2 :
                  /\ [id |-> sel'[q][i], active |-> TRUE] \in members'[q]
                  /\ users[sel'[q][i]].team = teamName[q]
                  /\ sel'[q][i] # call[q].user
       /\ (pc[q] = "cp_insert" /\ Steps(q) /\ pc'[q] = "ret_get")
          => /\ pr_reviewers'[call[q].pr] = SetToBag(Range(sel[q]))
             /\ pull_requests'[call[q].pr].author = call[q].user
    ]_vars

\* a CreatePR call has stored its PR with two reviewers from the team of
\* the author
CreatedReviewersFromSnapshotWitness ==
  \E q \in Procs :
    /\ pc[q] = "ret_get" /\ call[q].op = "CreatePR"
    /\ pull_requests[call[q].pr].author = call[q].user
    /\ BagCardinality(pr_reviewers[call[q].pr]) = 2
    /\ \A u \in BagToSet(pr_reviewers[call[q].pr]) :
         u # call[q].user /\ users[u].team = users[call[q].user].team

\* number of open PRs that have a reviewer row for user u
OpenLoad(u) ==
  Cardinality({p \in PRIds : pull_requests[p].status = StatusOpen /\ BagIn(u, pr_reviewers[p])})

(* C15: CreatePR balances load: the 2 reviewers are taken from the         *)
(* eligible members with the fewest open PRs, so an eligible member is     *)
(* never chosen while two eligible members with strictly fewer open        *)
(* assignments are available.                                              *)
LeastLoadedChosen ==
  [][\A q \in Procs :
       (pc[q] = "cp_members" /\ Steps(q) /\ pc'[q] = "cp_insert")
       => LET eligible == {u \in UserIds : /\ users[u].team = teamName[q]
                                           /\ users[u].active
                                           /\ u # call[q].user}
          IN  \A i \in 1..Len(sel'[q]) :
                ~ \E a, b \in eligible :
                    /\ a # b
                    /\ OpenLoad(a) < OpenLoad(sel'[q][i])
                    /\ OpenLoad(b) < OpenLoad(sel'[q][i])
    ]_vars

(* C16: selectReviewers(members, excluded, N) returns exactly min(N, k)    *)
(* pairwise distinct ids, k being the number of members that are active    *)
(* and are not the excluded id; every returned id is such a member; with   *)
(* k = 0 the result is empty and no error is raised.                       *)
SelectReturnsMinDistinct ==
  \A q \in Procs :
    (pc[q] = "done" /\ call[q].op = "selectReviewers") =>
      LET allowed == {m.id : m \in {x \in members[q] : x.active /\ x.id # call[q].user}}
          k == Cardinality(allowed)
          N == call[q].count
      IN  /\ Len(sel[q]) = IF N < k THEN N ELSE k
          /\ \A i, j \in 1..Len(sel[q]) : i # j => sel[q][i] # sel[q][j]
          /\ \A i \in 1..Len(sel[q]) : sel[q][i] \in allowed
          /\ k = 0 => sel[q] = <<>>
          /\ err[q] = <<>>

\* a list with an inactive member and the excluded id leaves 2 candidates
\* for a request of 3: both are returned
SelectReturnsMinDistinctWitness ==
  \E q \in Procs :
    /\ pc[q] = "done" /\ call[q].op = "selectReviewers"
    /\ call[q].count = 3 /\ Len(sel[q]) = 2
    /\ Cardinality(members[q]) = 4
    /\ \E m \in members[q] : ~m.active
    /\ [id |-> call[q].user, active |-> TRUE] \in members[q]

\* the call of q has ended with an error of the validation class: an error
\* of the Validator, or the nil-UUID check of the service
ValidationFailed(q) ==
  /\ pc[q] = "done" /\ err[q] # <<>>
  /\ \/ err[q][1] = "validation error"
     \/ err[q] \in {<<"user_id cannot be nil UUID">>,
                     <<"pull_request_id cannot be nil UUID">>,
                     <<"IDs cannot be nil UUID">>}

\* the error comes from ValidateReviewersCount
ReviewersCountError(e) ==
  Cause(e) \in {"not enough reviewers: minimum 2 required",
                "cannot assign more than 2 reviewers"}

(* C17 as stated: whenever an operation fails with a validation error,     *)
(* that call has invoked no persistence operation, neither a read nor a    *)
(* write, before failing.                                                  *)
ValidationBeforePersistence ==
  \A q \in Procs : ValidationFailed(q) => repoCalls[q] = NoCalls

(* C17 amended: a call that fails with a validation error has invoked no   *)
(* persistence write; it has invoked no persistence read either, unless    *)
(* the error is CreatePR's reviewers-count error, which comes after the    *)
(* three reads PRExists, GetUserByID and GetTeamMembers.                   *)
ValidationBeforeWrite ==
  \A q \in Procs :
    ValidationFailed(q) =>
      /\ repoCalls[q].writes = 0
      /\ IF ReviewersCountError(err[q])
           THEN call[q].op = "CreatePR" /\ repoCalls[q].reads = 3
           ELSE repoCalls[q].reads = 0

\* a CreateTeam with an empty member list was rejected before any
\* repository call, and a CreatePR was rejected for its reviewers count
\* after its three reads
ValidationBeforeWriteWitness ==
  \E q, q2 \in Procs :
    /\ ValidationFailed(q) /\ call[q].op = "CreateTeam" /\ repoCalls[q] = NoCalls
    /\ ValidationFailed(q2) /\ call[q2].op = "CreatePR"
    /\ ReviewersCountError(err[q2])
    /\ repoCalls[q2] = [reads |-> 3, writes |-> 0]

(* C18: the pseudo-random source is never accessed by two concurrently     *)
(* executing operations at the same time: no two calls are inside a method *)
(* of the generator at once.                                               *)
RandMutualExclusion ==
  \A q \in Procs, q2 \in Procs :
    q # q2 => ~(pc[q] \in InRand /\ pc[q2] \in InRand)

\* the response the handler of the call of q sends for its error
Response(q) ==
  CASE call[q].op = "SetUserActive" -> SetUserActiveResponse(err[q])
    [] call[q].op = "CreatePR" -> CreatePRResponse(err[q])
    [] call[q].op = "MergePR" -> MergePRResponse(err[q])
    [] call[q].op = "ReassignReviewer" -> ReassignReviewerResponse(err[q])

(* C19: MergePR and ReassignReviewer for a PR id that is not stored fail   *)
(* with an error that the handler answers as not found (PR_NOT_FOUND), not *)
(* as an internal error, and the failing step changes no table.            *)
UnknownPRNotFound ==
  [][\A q \in Procs :
       ( /\ Starts(q) /\ call'[q].op \in {"MergePR", "ReassignReviewer"}
         /\ call'[q].pr \in PRIds /\ call'[q].user \in (UserIds \cup {Nil})
         /\ call'[q].op = "ReassignReviewer" => call'[q].user # Nil
         /\ ~PRRowExists(call'[q].pr) )
       => /\ pc'[q] = "done"
          /\ Cause(err'[q]) = "PR_NOT_FOUND"
          /\ dbvars' = dbvars
          /\ Response(q)' = <<"StatusNotFound", "NOT_FOUND">>
    ]_vars

(* C20: SetUserActive for an unknown user id, and CreatePR with an unknown *)
(* author id, fail with an error that the handler answers as not found     *)
(* (USER_NOT_FOUND), not as an internal error, and change no table.        *)
UnknownUserNotFound ==
  [][\A q \in Procs :
       /\ ( /\ Starts(q) /\ call'[q].op = "SetUserActive"
            /\ call'[q].user # Nil /\ ~UserExists(call'[q].user) )
          => /\ pc'[q] = "done"
             /\ Cause(err'[q]) = "USER_NOT_FOUND"
             /\ dbvars' = dbvars
             /\ Response(q)' = <<"StatusNotFound", "NOT_FOUND">>
       /\ ( /\ call[q].op = "CreatePR" /\ pc[q] = "cp_author" /\ Steps(q)
            /\ ~UserExists(call[q].user) )
          => /\ pc'[q] = "done"
             /\ Cause(err'[q]) = "USER_NOT_FOUND"
             /\ dbvars' = dbvars
             /\ Response(q)' = <<"StatusNotFound", "NOT_FOUND">>
    ]_vars

\* the user ids whose users row names team t
TeamMembers(t) == {u \in UserIds : users[u].team = t}

(* C21: after a team has been created its set of members never changes,    *)
(* whatever operations follow, including a later CreateTeam for another    *)
(* team name that lists a user id already belonging to this team.          *)
TeamMembershipImmutable ==
  [][\A t \in teams : TeamMembers(t)' = TeamMembers(t)]_vars

\* the service's message for a failure of the k-th read of GetStatistics
StatsReadNames ==
  <<"failed to get PR stats", "failed to get user stats", "failed to get total users",
    "failed to get total teams", "failed to get active users">>

\* every field of the report has been filled in
StatsComplete(r) ==
  /\ r.prStats # NoPRStats
  /\ r.userStats # NoUserStats
  /\ r.totalUsers # -1 /\ r.totalTeams # -1 /\ r.activeUsers # -1

\* the step ends the call with the error of the read it made and no report
StatsFailed(q) ==
  /\ pc'[q] = "done"
  /\ ret'[q] = NoRet
  /\ Len(err'[q]) = 3
  /\ err'[q][1] = StatsReadNames[repoCalls'[q].reads]

\* the step stores the value f, read from the store as it is now, and goes on
StatsRead(q, f, next) == pc'[q] = next /\ stats'[q] = f /\ err'[q] = <<>>

\* C22: GetStatistics makes its five reads in order; each read either fills
\* its field with the value it read, or ends the call with that read's error
\* and no report; a report is returned only after five successful reads and
\* then every field of it is filled in.
StatisticsAllOrError ==
  [][\A q \in Procs :
       /\ (Starts(q) /\ call'[q].op = "GetStatistics") =>
            \/ StatsRead(q, [NoStats EXCEPT !.prStats = GetPRStats], "st_users")
            \/ StatsFailed(q)
       /\ (pc[q] = "st_users" /\ pc'[q] # pc[q]) =>
            \/ StatsRead(q, [stats[q] EXCEPT !.userStats = GetUserAssignmentStats], "st_total")
            \/ StatsFailed(q)
       /\ (pc[q] = "st_total" /\ pc'[q] # pc[q]) =>
            \/ StatsRead(q, [stats[q] EXCEPT !.totalUsers = GetTotalUsers], "st_teams")
            \/ StatsFailed(q)
       /\ (pc[q] = "st_teams" /\ pc'[q] # pc[q]) =>
            \/ StatsRead(q, [stats[q] EXCEPT !.totalTeams = GetTotalTeams], "st_active")
            \/ StatsFailed(q)
       /\ (pc[q] = "st_active" /\ pc'[q] # pc[q]) =>
            \/ /\ pc'[q] = "done" /\ err'[q] = <<>>
               /\ repoCalls'[q].reads = 5
               /\ ret'[q].stats = [stats[q] EXCEPT !.activeUsers = GetActiveUsers]
               /\ StatsComplete(ret'[q].stats)
            \/ StatsFailed(q)
  ]_vars

\* the fourth read failed after three successful ones: the call returned
\* that read's error and no report
StatisticsAllOrErrorWitness ==
  \E q \in Procs :
    /\ pc[q] = "done" /\ call[q].op = "GetStatistics"
    /\ repoCalls[q].reads = 4
    /\ err[q][1] = "failed to get total teams"
    /\ ret[q] = NoRet
    /\ teams # {}


\* C23: a returned report describes one state of the store.  In any one
\* state every user row belongs to a team, so the per-user list has exactly
\* as many entries as there are users, the active users are among the users,
\* and there is a team whenever there is a user.
StatisticsSnapshot ==
  \A q \in Procs :
    (pc[q] = "done" /\ call[q].op = "GetStatistics" /\ err[q] = <<>>) =>
      LET r == ret[q].stats
      IN  /\ Cardinality(r.userStats) = r.totalUsers
          /\ r.activeUsers <= r.totalUsers
          /\ (r.totalUsers > 0 => r.totalTeams > 0)
          /\ r.prStats.total = r.prStats.open + r.prStats.merged


\* C24: every stored PR has status open or merged and its merged_at is
\* non-null exactly when its status is merged; the step that creates a PR
\* stores it open with a null merged_at.
PRStatusLifecycle ==
  [][\A p \in PRIds :
       /\ PRRowExists(p)' =>
            /\ pull_requests'[p].status \in {StatusOpen, StatusMerged}
            /\ (pull_requests'[p].mergedAt # 0) <=> (pull_requests'[p].status = StatusMerged)
       /\ (~PRRowExists(p) /\ PRRowExists(p)') =>
            /\ pull_requests'[p].status = StatusOpen
            /\ pull_requests'[p].mergedAt = 0
  ]_vars

\* a PR that was created and then merged: its merged_at is set
PRStatusLifecycleWitness ==
  \E p \in PRIds, q \in Procs :
    /\ pull_requests[p].status = StatusMerged
    /\ pull_requests[p].mergedAt # 0
    /\ pc[q] = "done" /\ call[q].op = "MergePR" /\ call[q].pr = p /\ err[q] = <<>>


\* C25: a CreateTeam call for a well-formed team whose name is already
\* stored ends with the error TEAM_EXISTS and changes no row of any table,
\* whether the name is found by TeamExists or, in a concurrent creation,
\* only by the unique index when the insert runs.
TeamExistsNoWrite ==
  [][\A q \in Procs :
       /\ ( /\ Starts(q) /\ call'[q].op = "CreateTeam"
            /\ call'[q].team \in teams
            /\ ValidateTeam([name |-> call'[q].team, members |-> call'[q].members]) = <<>> ) =>
            /\ pc'[q] = "done" /\ err'[q] = <<"TEAM_EXISTS">>
            /\ UNCHANGED dbvars
       /\ (pc[q] = "ct_insert" /\ pc'[q] # pc[q] /\ call[q].team \in teams) =>
            /\ pc'[q] = "done" /\ err'[q] = <<"TEAM_EXISTS">>
            /\ UNCHANGED dbvars
  ]_vars

\* the duplicate was found by the insert only (TeamExists had answered no),
\* after a member of the stored team had been deactivated
TeamExistsNoWriteWitness ==
  \E q \in Procs :
    /\ pc[q] = "done" /\ call[q].op = "CreateTeam"
    /\ err[q] = <<"TEAM_EXISTS">>
    /\ repoCalls[q].writes = 1
    /\ call[q].team \in teams
    /\ \E i \in 1..Len(call[q].members) :
         /\ users[call[q].members[i].id].team = call[q].team
         /\ users[call[q].members[i].id].active # call[q].members[i].active


\* C26: a ReassignReviewer call for an open PR and an assigned old reviewer
\* whose is_active flag is false goes on as for an active one: the lookup of
\* the old reviewer gives its team; when that team has an eligible member
\* (and nothing the call has read has changed meanwhile) the call picks an
\* active member of that team, its write replaces the old reviewer's row by
\* the pick, and the call returns a nil error.
InactiveReviewerReassigned ==
  [][\A q \in Procs :
       LET p == call[q].pr
           old == call[q].user
           inactive == UserExists(old) /\ ~users[old].active
           t == users[old].team
       IN
       /\ (pc[q] = "ra_user" /\ Steps(q) /\ inactive) =>
            pc'[q] = "ra_members" /\ teamName'[q] = t
       /\ ( /\ pc[q] = "ra_members" /\ Steps(q) /\ inactive
            /\ pr[q].revs = pr_reviewers[p]
            /\ pull_requests[p].status = StatusOpen
            /\ teamName[q] = t
            /\ Eligible(t, p) # {} ) =>
            /\ pc'[q] = "ra_write"
            /\ users[sel'[q][1]].team = t /\ users[sel'[q][1]].active
            /\ sel'[q][1] \in Eligible(t, p)
       /\ ( /\ pc[q] = "ra_write" /\ Steps(q) /\ inactive
            /\ pr[q].revs = pr_reviewers[p] ) =>
            /\ pc'[q] = "ret_get" /\ err'[q] = <<>>
            /\ BagIn(sel[q][1], pr_reviewers'[p])
            /\ ~BagIn(old, pr_reviewers'[p])
  ]_vars

\* a reassignment away from a deactivated reviewer has succeeded: the pick
\* is an active member of the old reviewer's team and has its row
InactiveReviewerReassignedWitness ==
  \E q \in Procs :
    /\ InFlightOK(q, "ReassignReviewer")
    /\ ~users[call[q].user].active
    /\ BagIn(sel[q][1], pr_reviewers[call[q].pr])
    /\ ~BagIn(call[q].user, pr_reviewers[call[q].pr])
    /\ users[sel[q][1]].active
    /\ users[sel[q][1]].team = users[call[q].user].team
    /\ pull_requests[call[q].pr].status = StatusOpen


OutcomeIndependentOfRand ==
  \A q \in Procs :
    pc[q] = "ra_write" =>
      \A newReviewer \in Candidates(members[q], pr[q]) :
        ReplaceReviewer(pr_reviewers[call[q].pr], call[q].user, newReviewer)[1]
          = ReplaceReviewer(pr_reviewers[call[q].pr], call[q].user, sel[q][1])[1]


\* the teams the specification rules out: name empty, blank or longer than
\* 255 characters, no members, a user id listed twice, or a member with the
\* nil id or an empty (or blank) or over-255-character username
TeamRuledOut(team) ==
  \/ Blank(team.name)
  \/ Len(team.name) > MaxNameLen
  \/ Len(team.members) = 0
  \/ \E i, j \in 1..Len(team.members) : i # j /\ team.members[i].id = team.members[j].id
  \/ \E i \in 1..Len(team.members) :
       \/ team.members[i].id = Nil
       \/ Blank(team.members[i].username)
       \/ Len(team.members[i].username) > MaxNameLen

\* C29: CreateTeam rejects exactly the ruled-out teams: such a team ends the
\* call with a validation error before any persistence call; every other
\* team passes validation, so the call goes on to TeamExists.
ValidateTeamExactly ==
  [][\A q \in Procs :
       (Starts(q) /\ call'[q].op = "CreateTeam") =>
         LET team == [name |-> call'[q].team, members |-> call'[q].members] IN
         IF TeamRuledOut(team)
           THEN /\ pc'[q] = "done"
                /\ Len(err'[q]) = 2 /\ err'[q][1] = "validation error"
                /\ repoCalls'[q] = NoCalls
                /\ UNCHANGED dbvars
           ELSE /\ repoCalls'[q] = OneRead
                /\ err'[q] \in {<<>>, <<"TEAM_EXISTS">>}
  ]_vars


\* C30: ValidateReviewersCount returns no error exactly for the lists of 2
\* entries; a list of 0 or 1 entries is rejected as not enough, a list of 3
\* or more as too many.
ReviewersCountExactlyTwo ==
  \A q \in Procs :
    (pc[q] = "done" /\ call[q].op = "ValidateReviewersCount") =>
      /\ (err[q] = <<>>) <=> (Len(sel[q]) = 2)
      /\ Len(sel[q]) < 2 => err[q] = <<"not enough reviewers: minimum 2 required">>
      /\ Len(sel[q]) > 2 => err[q] = <<"cannot assign more than 2 reviewers">>

\* a list of three reviewers has been rejected
ReviewersCountExactlyTwoWitness ==
  \E q \in Procs :
    /\ pc[q] = "done" /\ call[q].op = "ValidateReviewersCount"
    /\ Len(sel[q]) = 3
    /\ err[q] = <<"cannot assign more than 2 reviewers">>


\* the largest number of repository calls of one service call (CreatePR and
\* ReassignReviewer: four reads and a write; GetStatistics: five reads)
MaxRepoCalls == 5

\* C31: every call that has started ends, with a result or an error; until
\* then it has made at most MaxRepoCalls repository calls, and at most one
\* of them is a write (no statement is issued a second time).
CallsTerminate ==
  /\ [](\A q \in Procs :
          /\ repoCalls[q].writes <= 1
          /\ repoCalls[q].reads + repoCalls[q].writes <= MaxRepoCalls)
  /\ \A q \in Procs : (~Free(q)) ~> (pc[q] = "done")

\* a reassignment has ended after four reads and one write
CallsTerminateWitness ==
  \E q \in Procs :
    /\ pc[q] = "done" /\ call[q].op = "ReassignReviewer" /\ err[q] = <<>>
    /\ repoCalls[q] = [reads |-> 4, writes |-> 1]


\* C32: a request to /users/setIsActive whose X-Admin-Token header is
\* missing or is not the configured token is answered UNAUTHORIZED; the
\* step makes no repository call and changes no row, so no is_active flag
\* changes.
AdminTokenRequired ==
  [][\A q \in Procs, token \in TokenInputs \ {AdminToken}, a \in SetUserActiveInputs :
       SetIsActiveRequest(q, token, a[1], a[2]) =>
         /\ pc'[q] = "done"
         /\ err'[q] = <<"UNAUTHORIZED">>
         /\ call'[q].op # "SetUserActive"
         /\ repoCalls'[q] = NoCalls
         /\ UNCHANGED dbvars
  ]_vars

\* a request with a wrong token for an existing user, asking for the other
\* value of the flag, has been refused
AdminTokenRequiredWitness ==
  \E q \in Procs :
    /\ pc[q] = "done" /\ call[q].op = "POST /users/setIsActive"
    /\ call[q].token = "guess"
    /\ err[q] = <<"UNAUTHORIZED">>
    /\ UserExists(call[q].user)
    /\ users[call[q].user].active # call[q].flag


\* C33: the write of a successful ReassignReviewer replaces the row (PR, old
\* reviewer) by (PR, new reviewer) and nothing else: the new reviewer is a
\* member of the old reviewer's team, is not the author and had no row for
\* the PR; the PR's status, author, merged_at and other reviewer, the rows
\* of the other PRs, and teams and users are as before.
ReassignReplacesOneRow ==
  [][\A q \in Procs :
       (pc[q] = "ra_write" /\ pc'[q] = "ret_get") =>
         LET p == call[q].pr
             old == call[q].user
             new == sel[q][1]
         IN  /\ pr_reviewers'[p] = (pr_reviewers[p] (-) SetToBag({old})) (+) SetToBag({new})
             /\ BagIn(old, pr_reviewers[p]) /\ ~BagIn(new, pr_reviewers[p])
             /\ new # pull_requests[p].author
             /\ users[new].team = users[old].team
             /\ pull_requests' = pull_requests
             /\ \A p2 \in PRIds \ {p} : pr_reviewers'[p2] = pr_reviewers[p2]
             /\ teams' = teams /\ users' = users
  ]_vars


\* the error tokens with which ReassignReviewer refuses before it writes
ReassignRefusals == {"PR_NOT_FOUND", "PR_MERGED", "NOT_ASSIGNED", "NO_CANDIDATE"}

\* C34: a ReassignReviewer call that ends with PR_NOT_FOUND, PR_MERGED,
\* NOT_ASSIGNED or NO_CANDIDATE has issued no repository write, hence no
\* ReplaceReviewer, and the step in which it returns the error leaves every
\* PR row and every reviewer row (and teams and users) unchanged.
ReassignRefusalNoWrite ==
  [][\A q \in Procs :
       ( /\ call'[q].op = "ReassignReviewer"
         /\ pc'[q] = "done"
         /\ err'[q] # <<>>
         /\ err'[q][Len(err'[q])] \in ReassignRefusals
         /\ \/ pc[q] # "done"
            \/ calls' # calls /\ \A r \in Procs \ {q} : pc'[r] = pc[r] )
       => /\ repoCalls'[q].writes = 0
          /\ pull_requests' = pull_requests
          /\ pr_reviewers' = pr_reviewers
          /\ teams' = teams /\ users' = users
  ]_vars

\* a reassignment refused with NO_CANDIDATE after its three reads, on a PR
\* whose two reviewer rows are in place
ReassignRefusalNoWriteWitness ==
  \E q \in Procs :
    /\ call[q].op = "ReassignReviewer"
    /\ pc[q] = "done"
    /\ err[q] = <<"NO_CANDIDATE">>
    /\ repoCalls[q] = [reads |-> 3, writes |-> 0]
    /\ BagCardinality(pr_reviewers[call[q].pr]) = 2
    /\ BagIn(call[q].user, pr_reviewers[call[q].pr])


\* C35: the PR record returned by a successful ReassignReviewer lists the
\* returned replacement among its reviewers and does not list the old
\* reviewer, whatever other calls commit between the write and the re-read.
ReassignReturnsReplacement ==
  \A q \in Procs :
    (call[q].op = "ReassignReviewer" /\ pc[q] = "done" /\ err[q] = <<>>) =>
      /\ BagIn(ret[q].user, ret[q].pr.revs)
      /\ ~BagIn(call[q].user, ret[q].pr.revs)


\* C36: SetUserActive changes only the is_active flag of the target user:
\* its write leaves every PR row, every reviewer row, every team and every
\* other user as they were (a deactivated user keeps the reviewer rows), its
\* read-back changes nothing, and for an unknown user id the call fails and
\* changes nothing.
SetUserActiveOnlyFlag ==
  [][\A q \in Procs :
       \* the call up to and including its UPDATE users
       /\ \A a \in SetUserActiveInputs :
            SetUserActive(q, a[1], a[2]) =>
              /\ pull_requests' = pull_requests
              /\ pr_reviewers' = pr_reviewers
              /\ teams' = teams
              /\ IF UserExists(a[1])
                   THEN users' = [users EXCEPT ![a[1]].active = a[2]]
                   ELSE users' = users /\ pc'[q] = "done" /\ err'[q] # <<>>
       \* the read-back
       /\ (pc[q] = "sa_get" /\ pc'[q] # "sa_get") => UNCHANGED dbvars
  ]_vars

\* a finished SetUserActive(u, false) whose user is still a reviewer of a PR
SetUserActiveOnlyFlagWitness ==
  \E q \in Procs :
    /\ call[q].op = "SetUserActive"
    /\ pc[q] = "done"
    /\ err[q] = <<>>
    /\ ~call[q].flag
    /\ ~users[call[q].user].active
    /\ \E p \in DOMAIN pr_reviewers : BagIn(call[q].user, pr_reviewers[p])


\* C37: PR status is monotonic: in every step a PR that is merged stays
\* merged, and a PR row that is stored stays stored.
PRStatusMonotonic ==
  [][\A p \in PRIds :
       /\ PRRowExists(p) => PRRowExists(p)'
       /\ (pull_requests[p].status = StatusMerged) =>
            (pull_requests'[p].status = StatusMerged)
  ]_vars

\* two MergePR calls of the same PR have both written: the PR is merged
PRStatusMonotonicWitness ==
  \E p \in PRIds :
    /\ pull_requests[p].status = StatusMerged
    /\ \A q \in Procs :
         /\ call[q].op = "MergePR" /\ call[q].pr = p
         /\ pc[q] = "done" /\ err[q] = <<>>
         /\ repoCalls[q].writes = 1


\* the PR ids of a result of GetPRsByReviewer
ReviewIds(reviews) == {r.id : r \in BagToSet(reviews)}

\* C38: GetUserReviews(u) returns exactly the PRs, open or merged, that have
\* a reviewer row of u when the query runs, each once and with its stored
\* status; and in the state after the write of a successful reassignment of
\* u on PR p the list of u does not hold p and the list of the replacement
\* holds it.
ReviewsExactlyAssigned ==
  [][\A q \in Procs :
       /\ \A u \in GetUserReviewsInputs \ {Nil} :
            GetUserReviews(q, u) =>
              /\ err'[q] = <<>>
              /\ ReviewIds(ret'[q].reviews) =
                   {p \in PRIds : PRRowExists(p) /\ BagIn(u, pr_reviewers[p])}
              /\ \A r \in BagToSet(ret'[q].reviews) :
                   /\ CopiesIn(r, ret'[q].reviews) = 1
                   /\ r.status = pull_requests[r.id].status
                   /\ r.status \in {StatusOpen, StatusMerged}
       /\ (pc[q] = "ra_write" /\ pc'[q] = "ret_get") =>
            /\ call[q].pr \notin ReviewIds(GetPRsByReviewer(call[q].user))'
            /\ call[q].pr \in ReviewIds(GetPRsByReviewer(sel[q][1]))'
  ]_vars

\* a reassignment of a PR has succeeded, and a GetUserReviews of the
\* replacement has returned the PR
ReviewsExactlyAssignedWitness ==
  \E q, r \in Procs :
    /\ call[r].op = "ReassignReviewer" /\ pc[r] = "done" /\ err[r] = <<>>
    /\ call[q].op = "GetUserReviews" /\ pc[q] = "done" /\ err[q] = <<>>
    /\ call[q].user = ret[r].user
    /\ call[r].pr \in ReviewIds(ret[q].reviews)


\* the sum of total_assignments over the entries of a per-user list
RECURSIVE SumTotal(_)
SumTotal(S) ==
  IF S = {} THEN 0
  ELSE LET x == CHOOSE y \in S : TRUE
       IN  x.total + SumTotal(S \ {x})

\* C39: the statistics computed from any one reachable state of the store
\* satisfy total_prs = total_open + total_merged; for every user
\* total_assignments = open_assignments + merged_assignments; the sum of
\* total_assignments over all users is twice total_prs; and active_users is
\* at most total_users.
StatisticsIdentities ==
  /\ GetPRStats.total = GetPRStats.open + GetPRStats.merged
  /\ \A x \in GetUserAssignmentStats : x.total = x.open + x.merged
  /\ SumTotal(GetUserAssignmentStats) = 2 * GetPRStats.total
  /\ GetActiveUsers <= GetTotalUsers

\* a store with an open and a merged PR that share a reviewer, and a user
\* without assignments
StatisticsIdentitiesWitness ==
  /\ GetPRStats = [open |-> 1, merged |-> 1, total |-> 2]
  /\ \E x \in GetUserAssignmentStats : x.total = 2 /\ x.open = 1 /\ x.merged = 1
  /\ \E x \in GetUserAssignmentStats : x.total = 0

====
